---- MODULE Spec2Model ----
(***************************************************************************)
(* RevPiPyLoad: the PLC-Server connection worker (RevPiSlaveDev) working   *)
(* on the process image, and the program supervisor (RevPiPlc).            *)
(***************************************************************************)
EXTENDS Integers, Sequences, FiniteSets, TLC

VARIABLES
    image,            \* the process image, position -> byte
    srv_watchdog,     \* RevPiSlave._watchdog
    c_state,          \* worker thread: "open", "closed" (left run()), "crashed" (exception left run())
    acl,              \* RevPiSlaveDev._acl
    deadtime,         \* RevPiSlaveDev._deadtime, <<>> is None, <<ms>> otherwise
    watchdog,         \* RevPiSlaveDev.watchdog
    ey_dict,          \* RevPiSlaveDev.ey_dict, <<position, bytes>> in key insertion order
    dirty,            \* local variable dirty of RevPiSlaveDev.run
    dev_exit,         \* RevPiSlaveDev._evt_exit
    got_replace_ios,  \* RevPiSlaveDev.got_replace_ios
    doerror,          \* RevPiSlaveDev.__doerror
    developermode,    \* proginit.pargs.developermode
    sent,             \* the bytes of the last reply the worker sent
    plc_pc,           \* RevPiPlc thread: "new", "loop" (supervising), "done" (run() returned)
    child,            \* RevPiPlc._procplc: "none", "alive", "dead"
    child_code,       \* returncode of a dead child
    spawned,          \* how many children _spopen() has started
    sigterm,          \* SIGTERM was sent to the child that is alive
    sigkill,          \* SIGKILL was sent to the child
    exitcode,         \* RevPiPlc.exitcode, <<>> is None
    plc_exit,         \* RevPiPlc._evt_exit
    autoreload,       \* RevPiPlc.autoreload
    autoreloaddelay2, \* RevPiPlc._autoreloaddelay (half seconds)
    delaycounter,     \* RevPiPlc._delaycounter
    zeroonerror,      \* RevPiPlc.zeroonerror
    zeroonexit,       \* RevPiPlc.zeroonexit
    stop_timeout,     \* RevPiPlc.stop_timeout, set from plcprogram_stop_timeout
    stop_pc,          \* RevPiPlc.stop(): "idle", "poll", "done"
    stop_count,       \* local variable count of RevPiPlc.stop
    waited,           \* half seconds the loop has waited since it first saw the child dead
    stream,           \* what the client has sent and the worker has not read yet
    dict_acl,         \* IpAclManager.__dict_acl, a set of <<ip pattern, level>>
    dict_knownips,    \* IpAclManager.__dict_knownips, a set of <<ip, level>>
    acl_filename,     \* IpAclManager.__filename, <<>> is None
    acl_ret,          \* what the last call of the ACL manager returned
    requestacl,       \* SaveXMLRPCServer.requestacl
    rpc_ret,          \* the last request of the XML-RPC server and what became of it
    fs_files,         \* the files that uploads have created, by absolute path
    fs_dirs,          \* the directories that exist, by absolute path
    upl_ret,          \* what the last plcupload returned, and the path it asked for
    evt_loadconfig,   \* RevPiPyLoad.evt_loadconfig
    pending,          \* how often evt_loadconfig was set since it was last cleared
    cfg,              \* the attributes of RevPiPyLoad that _loadconfig() has set
    rsc,              \* the hardware-config file proginit.pargs.configrsc
    pictorymtime,     \* RevPiPyLoad.pictorymtime
    hash_pict,        \* picontrolserver.HASH_PICT
    triggered,        \* ResetDriverWatchdog._triggered
    not_implemented,  \* ResetDriverWatchdog.not_implemented
    loop_ret,         \* what the last step of the mainloop did and found
    main_pc,          \* mainloop of RevPiPyLoad.start(): "top", "check", "crashed"
    wd_pc,            \* SoftwareWatchdog.__th: "none", "delay", "sample", "rest", "done"
    wd_exit,          \* SoftwareWatchdog._exit
    wd_stopped,       \* SoftwareWatchdog._stopped
    wd_timeout,       \* SoftwareWatchdog._timeout (seconds)
    wd_triggered,     \* SoftwareWatchdog.triggered
    wd_process,       \* SoftwareWatchdog._process: "none" is None, "set" a Popen
    wd_sigkill,       \* kill() was called on the Popen in _process
    wd_mrk,           \* local variable mrk of __th_run: the bit it compares with
    wd_seen,          \* local variable bit_7 of __th_run: the bit it read last
    wd_elapsed,       \* time() - tmr of __th_run (seconds)
    wd_bit,           \* bit 7 of the RevPiLED byte in the process image
    wd_frozen,        \* the control program has stopped toggling the bit
    wd_join,          \* the caller that waits in __th.join(): "none", "timeout", "stop"
    ip_level,         \* what get_acllevel() of the PLC-Server's ACL returns, by peer
    dev,              \* the RevPiSlaveDev objects, by connection
    th_dev,           \* RevPiSlave._th_dev, the connections in the list
    acc,              \* the connection the acceptor has looked up and not started yet
    checked,          \* check_connectedacl() has returned since the ACL was last loaded
    th_plcserver,     \* RevPiPyLoad.th_plcserver: which acceptor object, and its thread
    srv_cfg,          \* plcserver, plcserverbindip, plcserverport of RevPiPyLoad
    so,               \* RevPiSlaveDev._devcon: "conn", "shut", "gone" (not connected any more), "none" (None)
    fut,              \* SaveXMLRPCServer.fut: "none" (None), "running", "done"
    plw,              \* RevPiPlc._plw: "none" (None), "new" (not started), "alive", "done"
    raised,           \* the exception that left the last call of a stop(), "none" without one
    lp_pipe,          \* the lines in the pipe of the PipeLogwriter; 0 is the newline of stop()
    lp_buf,           \* the lines the buffered reader fhread has taken from the pipe
    lp_line,          \* local variable line of PipeLogwriter.run, <<>> without one
    lp_file,          \* the lines in the log file
    lp_fh,            \* PipeLogwriter._fh: "open", "closed"
    lp_lock,          \* who holds PipeLogwriter._lckfh: "free", "writer", "stop"
    lp_pc,            \* PipeLogwriter thread: "new", "readline", "acquire", "check", "done"
    lp_stop,          \* PipeLogwriter.stop(): "idle", "acquire", "write", "returned"
    lp_exit,          \* PipeLogwriter._exit
    lp_next,          \* the number of the next line the child writes
    dict_regex,       \* IpAclManager.__dict_regex, the patterns that have a regex
    ld,               \* __set_acl() in the mainloop: where it is and the entries it has to fill
    lk,               \* get_acllevel() in another thread: where it is, its locals, what it returned
    rd_triggered,     \* ResetDriverWatchdog._triggered
    rd_pc,            \* the mainloop in the property triggered: "idle", "read" (rc is read)
    rd_rc,            \* local variable rc of triggered; what the last read returned
    rd_owed,          \* an event was detected and no read has returned True since
    rd_events,        \* the events the watcher thread has detected
    rd_seen,          \* the reads of triggered that have returned True
    sc_conf,          \* RevPiPyLoad.globalconfig: autoreload and autostart of DEFAULT
    sc_file,          \* the same two values in the configuration file
    sc_acl,           \* the lists of plcserveracl and xmlrpcacl
    sc_aclfile,       \* the entry lines of the two ACL files
    sc_ret            \* the last call of xml_setconfig: what was sent, what it returned

connvars == <<image, srv_watchdog, c_state, acl, deadtime, watchdog, ey_dict,
              dirty, dev_exit, got_replace_ios, doerror, developermode, sent>>

plcvars == <<plc_pc, child, child_code, spawned, sigterm, sigkill, exitcode,
             plc_exit, autoreload, autoreloaddelay2, delaycounter, zeroonerror,
             zeroonexit, stop_timeout, stop_pc, stop_count, waited>>

framevars == <<stream>>

aclvars == <<dict_acl, dict_knownips, acl_filename, acl_ret>>

rpcvars == <<requestacl, rpc_ret>>

uplvars == <<fs_files, fs_dirs, upl_ret>>

wdvars == <<wd_pc, wd_exit, wd_stopped, wd_timeout, wd_triggered, wd_process,
            wd_sigkill, wd_mrk, wd_seen, wd_elapsed, wd_bit, wd_frozen, wd_join>>

srvvars == <<ip_level, dev, th_dev, acc, checked, th_plcserver, srv_cfg>>

(* the components that have a model of their own *)
stopvars == <<so, fut, plw, raised>>

pipevars == <<lp_pipe, lp_buf, lp_line, lp_file, lp_fh, lp_lock, lp_pc, lp_stop,
              lp_exit, lp_next>>

(* the components that were modelled last *)
racevars == <<dict_regex, ld, lk>>

rdvars == <<rd_triggered, rd_pc, rd_rc, rd_owed, rd_events, rd_seen>>

scvars == <<sc_conf, sc_file, sc_acl, sc_aclfile, sc_ret>>

lastvars == <<rdvars, scvars>>

morevars == <<pipevars, racevars, lastvars>>

latevars == <<wdvars, srvvars, stopvars, morevars>>

mainvars == <<evt_loadconfig, pending, cfg, rsc, pictorymtime, hash_pict,
              triggered, not_implemented, loop_ret, main_pc>>

(* all but the ACL manager *)
notacl == <<connvars, plcvars, framevars, rpcvars, uplvars, mainvars, latevars>>

(* all but the socket *)
notframe == <<plcvars, aclvars, rpcvars, uplvars, mainvars, latevars>>

(* all but the ACL manager and the XML-RPC server *)
notrpc == <<connvars, plcvars, framevars, uplvars, mainvars, latevars>>

(* all but the files of the working directory *)
notupl == <<connvars, plcvars, framevars, aclvars, rpcvars, mainvars, latevars>>

(* the rest of the daemon *)
(* all but the mainloop, the supervisor and the connection *)
notmain == <<framevars, aclvars, rpcvars, uplvars, latevars>>

newvars == <<framevars, aclvars, rpcvars, uplvars, mainvars, latevars>>

vars == <<connvars, plcvars, newvars>>

----------------------------------------------------------------------------
(* Bounds of the model *)

ImgLen == 2         \* length of the process image (4096 on the device)
MaxByte == 1        \* bytes are 0..MaxByte
MaxTimeout == 1     \* CF timeouts are 0..MaxTimeout ms, run times 1..MaxTimeout+1 ms
MaxDelay == 1       \* autoreloaddelay is 0..MaxDelay seconds
MaxSpawns == 2      \* children one supervisor starts
MaxStopTimeout == 6 \* plcprogram_stop_timeout is 1..MaxStopTimeout seconds
MaxRequests == 2    \* requests a client has in flight on its socket
MaxEntries == 2     \* entries of an ACL
MaxCalls == 2       \* calls in one system.multicall
MaxMtime == 2       \* mtimes of the hardware-config file are 1..MaxMtime
MaxPending == 2     \* settings of evt_loadconfig that wait for one reload

Positions == 0..(ImgLen - 1)
Bytes == 0..MaxByte
Lens == 0..ImgLen
Times == 1..(MaxTimeout + 1)

None == <<>>

Min(a, b) == IF a < b THEN a ELSE b
Max(a, b) == IF a > b THEN a ELSE b

(* byte strings of length n over Bytes *)
Str(n) == [1..n -> Bytes]
(* payloads a client sends for position p: they lie inside the image *)
Payloads(p) == UNION {Str(n) : n \in 1..(ImgLen - p)}

----------------------------------------------------------------------------
(* Control bytes of the protocol *)

RS == 30            \* b'\x1e'
ERR == 255          \* b'\xff'
DENIED == 24        \* b'\x18'

(* Hash values and files the server publishes *)
HASH_NULL == [i \in 1..16 |-> 0]
HASH_FAIL == [i \in 1..16 |-> 255]
HASH_PICT == HASH_FAIL
HASH_RPIO == HASH_NULL
configrsc == <<1, 1, 1>>        \* the bytes of the file proginit.pargs.configrsc
replace_ios == <<>>             \* proginit.conf["DEFAULT"]["replace_ios"]: no file

(* RevPiPyLoad.__init__() and the defaults of _loadconfig() *)
DefaultConfig ==
    [autoreload |-> TRUE, autostart |-> FALSE, plcprogram |-> 1,
     plcprogram_watchdog |-> 0, reset_driver_action |-> 2,
     revpi_led_address |-> -1]

(* nothing done yet *)
NoLoop ==
    [reloads |-> 0, served |-> 0, file_changed |-> FALSE, alive |-> FALSE,
     autoreload_only |-> FALSE, restart |-> FALSE]

----------------------------------------------------------------------------
(* The process image file *)

(* a read that starts one byte late *)
ReadAtNext(img, pos, len) ==
    [i \in 1..Min(len, Max(0, ImgLen - pos - 1)) |-> img[pos + i]]

(* fh_proc.seek(pos); fh_proc.read(len): short at the end of the image *)
ReadAt(img, pos, len) ==
    [i \in 1..Min(len, Max(0, ImgLen - pos)) |-> img[pos + i - 1]]

(* fh_proc.seek(pos); fh_proc.write(data) *)
WriteAt(img, pos, data) ==
    [i \in Positions |->
        IF i >= pos /\ i < pos + Len(data) THEN data[i - pos + 1] ELSE img[i]]

----------------------------------------------------------------------------
(* The dirty bytes: a dict, iterated in the order the keys were inserted *)

HasKey(d, pos) == \E i \in 1..Len(d) : d[i][1] = pos

DictSet(d, pos, val) ==
    IF HasKey(d, pos)
    THEN [i \in 1..Len(d) |-> IF d[i][1] = pos THEN <<pos, val>> ELSE d[i]]
    ELSE Append(d, <<pos, val>>)

DictDelKeep(e, pos) == e[1] # pos
DictDel(d, pos) == SelectSeq(d, LAMBDA e : DictDelKeep(e, pos))

(* a worker that writes the entries last to first *)
RECURSIVE ApplyDirtyReversed(_, _)
ApplyDirtyReversed(img, d) ==
    IF d = <<>> THEN img
    ELSE WriteAt(ApplyDirtyReversed(img, Tail(d)), d[1][1], d[1][2])

RECURSIVE ApplyDirty(_, _)
ApplyDirty(img, d) ==
    IF d = <<>> THEN img
    ELSE ApplyDirty(WriteAt(img, d[1][1], d[1][2]), Tail(d))

----------------------------------------------------------------------------
(* How the worker leaves one pass of its loop *)

(* the loop goes on to the next frame *)
KeepOpen(img) ==
    /\ c_state' = "open"
    /\ image' = img

(* a worker that writes the dirty bytes whatever "dirty" says *)
ShutdownAlways(img, d, isdirty) == ApplyDirty(img, d)

(* the code after the loop: "if dirty:" write every entry of ey_dict *)
Shutdown(img, d, isdirty) == IF isdirty THEN ApplyDirty(img, d) ELSE img

(* break: the code after the loop writes the dirty bytes and closes *)
Break(img, d) ==
    /\ c_state' = "closed"
    /\ image' = Shutdown(img, d, dirty)

(* an exception nothing catches ends run(): nothing after the loop runs *)
Crash(img) ==
    /\ c_state' = "crashed"
    /\ image' = img

(* a run time check that does not ask whether the watchdog is enabled *)
RuntimeCheckAlways(img, d, dt, comtime) ==
    IF dt # None /\ comtime > dt[1]
    THEN Break(img, d)
    ELSE KeepOpen(img)

(* the run time check that ends a pass *)
RuntimeCheck(img, d, dt, comtime) ==
    IF dt # None /\ comtime > dt[1] /\ watchdog
    THEN Break(img, d)
    ELSE KeepOpen(img)

----------------------------------------------------------------------------
(* The FD payload: records (position: u16, length: u16, bytes), little endian *)

(* the bytes of a network that sends the high byte first *)
U16BE(n) == <<n \div 256, n % 256>>

U16LE(n) == <<n % 256, n \div 256>>
UnpackU16(b0, b1) == b0 + 256 * b1

Slice(buf, from, to) ==
    [i \in 1..(Min(to, Len(buf)) - from) |-> buf[from + i]]

EncodeRecord(r) == U16LE(r[1]) \o U16LE(Len(r[2])) \o r[2]

RECURSIVE EncodeRecords(_)
EncodeRecords(rs) ==
    IF rs = <<>> THEN <<>> ELSE EncodeRecord(rs[1]) \o EncodeRecords(Tail(rs))

(* a loop that takes the records last to first *)
RECURSIVE FdApplyReversed(_, _, _, _)
FdApplyReversed(img, buf, index, length) ==
    IF ~(index < length) THEN [img |-> img, ok |-> TRUE]
    ELSE IF Len(Slice(buf, index, index + 4)) # 4 THEN [img |-> img, ok |-> FALSE]
    ELSE LET r_position == UnpackU16(buf[index + 1], buf[index + 2])
             r_length == UnpackU16(buf[index + 3], buf[index + 4])
             rest == FdApplyReversed(img, buf, index + 4 + r_length, length)
         IN  [img |-> WriteAt(rest.img, r_position,
                              Slice(buf, index + 4, index + 4 + r_length)),
              ok |-> rest.ok]

(* the loop "while index < length" over the received buffer: the image it
   leaves, and whether unpack() raised on a header shorter than 4 bytes *)
RECURSIVE FdApply(_, _, _, _)
FdApply(img, buf, index, length) ==
    IF ~(index < length) THEN [img |-> img, ok |-> TRUE]
    ELSE IF Len(Slice(buf, index, index + 4)) # 4 THEN [img |-> img, ok |-> FALSE]
    ELSE LET r_position == UnpackU16(buf[index + 1], buf[index + 2])
             r_length == UnpackU16(buf[index + 3], buf[index + 4])
         IN  FdApply(WriteAt(img, r_position,
                             Slice(buf, index + 4, index + 4 + r_length)),
                     buf, index + 4 + r_length, length)

----------------------------------------------------------------------------
(* The worker's handlers.  fault is what goes wrong in the pass: "none",   *)
(* "recv" (the payload cannot be received), "io" (the process image        *)
(* cannot be read or written), "send" (the reply cannot be sent).          *)
(* comtime is the run time of the pass in ms.                              *)

(* stop() has shut the socket down: a pass that is under way fails on it *)
Serving(fault) ==
    /\ c_state = "open"
    /\ dev_exit => fault \in {"recv", "send"}

(* a worker that lets level 0 write *)
WriteAllowedAll(level) == ~(level < 0)

(* "if self._acl < 1:" denies the request *)
WriteAllowed(level) == ~(level < 1)

(* sendall(b'\x18'); break *)
Deny(fault) ==
    IF fault = "send"
    THEN sent' = <<>> /\ Crash(image)
    ELSE sent' = <<DENIED>> /\ Break(image, ey_dict)

(* sendall(reply) outside any try, then the run time check *)
Reply(reply, img, d, dt, fault, comtime) ==
    IF fault = "send"
    THEN sent' = <<>> /\ Crash(img)
    ELSE sent' = reply /\ RuntimeCheck(img, d, dt, comtime)

DA(position, length, fault, comtime) ==
    /\ Serving(fault)
    /\ UNCHANGED <<srv_watchdog, acl, deadtime, watchdog, ey_dict, dirty,
                   dev_exit, got_replace_ios, doerror, developermode>>
    /\ IF fault \in {"io", "send"}
       THEN sent' = <<>> /\ Break(image, ey_dict)
       ELSE /\ sent' = ReadAt(image, position, length)
            /\ RuntimeCheck(image, ey_dict, deadtime, comtime)

WD(position, data, fault, comtime) ==
    /\ Serving(fault)
    /\ UNCHANGED <<srv_watchdog, acl, deadtime, watchdog, ey_dict, dirty,
                   dev_exit, got_replace_ios, doerror, developermode>>
    /\ IF ~WriteAllowed(acl) THEN Deny(fault)
       ELSE IF fault = "recv" THEN sent' = <<>> /\ Break(image, ey_dict)
       ELSE IF fault = "io" THEN sent' = <<>> /\ Crash(image)
       ELSE Reply(<<RS>>, WriteAt(image, position, data), ey_dict, deadtime,
                  fault, comtime)

FD(buf, fault, comtime) ==
    /\ Serving(fault)
    /\ UNCHANGED <<srv_watchdog, acl, deadtime, watchdog, ey_dict, dirty,
                   dev_exit, got_replace_ios, doerror, developermode>>
    /\ IF ~WriteAllowed(acl) THEN Deny(fault)
       ELSE IF fault = "recv" THEN sent' = <<>> /\ Break(image, ey_dict)
       ELSE IF fault = "io" THEN sent' = <<>> /\ Crash(image)
       ELSE LET res == FdApply(image, buf, 0, Len(buf))
            IN  IF res.ok
                THEN Reply(<<RS>>, res.img, ey_dict, deadtime, fault, comtime)
                ELSE sent' = <<>> /\ Crash(res.img)

Ping(fault, comtime) ==
    /\ Serving(fault)
    /\ UNCHANGED <<srv_watchdog, acl, deadtime, watchdog, ey_dict, dirty,
                   dev_exit, got_replace_ios, doerror, developermode>>
    /\ Reply(<<6, 22>>, image, ey_dict, deadtime, fault, comtime)

CF(position, fault, comtime) ==
    /\ Serving(fault)
    /\ UNCHANGED <<srv_watchdog, acl, watchdog, ey_dict, dirty,
                   dev_exit, got_replace_ios, doerror, developermode>>
    /\ IF 0 < position /\ position <= 65535
       THEN /\ deadtime' = <<position>>
            /\ Reply(<<RS>>, image, ey_dict, <<position>>, fault, comtime)
       ELSE /\ deadtime' = deadtime
            /\ IF fault = "send"
               THEN sent' = <<>> /\ Crash(image)
               ELSE sent' = <<ERR>> /\ Break(image, ey_dict)

(* control is blob[0:1] *)
EY(position, control, data, fault, comtime) ==
    /\ Serving(fault)
    /\ UNCHANGED <<srv_watchdog, acl, deadtime, watchdog, dirty,
                   dev_exit, got_replace_ios, doerror, developermode>>
    /\ LET ok_byte == IF doerror THEN ERR ELSE RS
       IN  IF ~WriteAllowed(acl) THEN ey_dict' = ey_dict /\ Deny(fault)
           ELSE IF control = 255
           THEN /\ ey_dict' = <<>>
                /\ Reply(<<ok_byte>>, image, <<>>, deadtime, fault, comtime)
           ELSE IF control = 254
           THEN /\ ey_dict' = DictDel(ey_dict, position)
                /\ Reply(<<ok_byte>>, image, DictDel(ey_dict, position),
                         deadtime, fault, comtime)
           ELSE IF fault = "recv"
           THEN ey_dict' = ey_dict /\ sent' = <<>> /\ Break(image, ey_dict)
           ELSE /\ ey_dict' = DictSet(ey_dict, position, data)
                /\ Reply(<<ok_byte>>, image, DictSet(ey_dict, position, data),
                         deadtime, fault, comtime)

(* readable: the file can be read; "continue" skips the run time check,
   whatever the run time comtime of the pass *)
PI(readable, fault, comtime) ==
    /\ Serving(fault)
    /\ UNCHANGED <<srv_watchdog, acl, deadtime, watchdog, ey_dict, dirty,
                   dev_exit, got_replace_ios, doerror, developermode>>
    /\ IF readable /\ fault # "send"
       THEN sent' = U16LE(Len(configrsc)) \o <<0, 0>> \o configrsc /\ KeepOpen(image)
       ELSE sent' = <<>> /\ Break(image, ey_dict)

PH(fault, comtime) ==
    /\ Serving(fault)
    /\ UNCHANGED <<srv_watchdog, acl, deadtime, watchdog, ey_dict, dirty,
                   dev_exit, got_replace_ios, doerror, developermode>>
    /\ Reply(hash_pict, image, ey_dict, deadtime, fault, comtime)

(* "continue" skips the run time check *)
RP(readable, fault, comtime) ==
    /\ Serving(fault)
    /\ UNCHANGED <<srv_watchdog, acl, deadtime, watchdog, ey_dict, dirty,
                   dev_exit, got_replace_ios, doerror, developermode>>
    /\ IF HASH_RPIO # HASH_NULL /\ replace_ios # <<>>
       THEN IF readable /\ fault # "send"
            THEN sent' = U16LE(Len(replace_ios)) \o <<0, 0>> \o replace_ios
                 /\ KeepOpen(image)
            ELSE sent' = <<>> /\ Break(image, ey_dict)
       ELSE IF fault = "send"
            THEN sent' = <<>> /\ Crash(image)
            ELSE sent' = <<0, 0, 0, 0>> /\ KeepOpen(image)

RH(fault, comtime) ==
    /\ Serving(fault)
    /\ got_replace_ios' = TRUE
    /\ UNCHANGED <<srv_watchdog, acl, deadtime, watchdog, ey_dict, dirty,
                   dev_exit, doerror, developermode>>
    /\ Reply(HASH_RPIO, image, ey_dict, deadtime, fault, comtime)

(* dirty = False; the loop ends; nothing is written, the socket is closed *)
EX ==
    /\ c_state = "open" /\ ~dev_exit
    /\ dirty' = FALSE
    /\ dev_exit' = TRUE
    /\ sent' = <<>>
    /\ c_state' = "closed"
    /\ image' = Shutdown(image, ey_dict, dirty')
    /\ UNCHANGED <<srv_watchdog, acl, deadtime, watchdog, ey_dict,
                   got_replace_ios, doerror, developermode>>

(* ioctl_ok: the ioctl on the device succeeds *)
IC(ioctl_ok, fault, comtime) ==
    /\ Serving(fault)
    /\ UNCHANGED <<srv_watchdog, acl, deadtime, watchdog, ey_dict, dirty,
                   dev_exit, got_replace_ios, doerror, developermode>>
    /\ IF fault = "recv" THEN sent' = <<>> /\ Break(image, ey_dict)
       ELSE IF ~WriteAllowed(acl) THEN Deny(fault)
       ELSE Reply(IF ioctl_ok THEN <<RS>> ELSE <<ERR>>, image, ey_dict,
                  deadtime, fault, comtime)

(* c, d are blob[0:1], blob[1:2]; 97 is 'a', 98 is 'b' *)
DV(c, d, fault, comtime) ==
    /\ Serving(fault)
    /\ developermode
    /\ UNCHANGED <<srv_watchdog, deadtime, watchdog, ey_dict, dirty,
                   dev_exit, got_replace_ios, developermode>>
    /\ IF acl < 9 THEN acl' = acl /\ doerror' = doerror /\ Deny(fault)
       ELSE IF c = 97
       THEN /\ acl' = 0 /\ doerror' = doerror
            /\ Reply(<<RS>>, image, ey_dict, deadtime, fault, comtime)
       ELSE IF c = 98
       THEN /\ acl' = acl /\ doerror' = (d = 1)
            /\ Reply(<<RS>>, image, ey_dict, deadtime, fault, comtime)
       ELSE /\ acl' = acl /\ doerror' = doerror /\ sent' = <<>>
            /\ RuntimeCheck(image, ey_dict, deadtime, comtime)

(* what ends the loop before any handler runs: why is "recv" (recv_into
   failed, returned 0 or timed out), "frame" (bad start or stop byte),
   "cmd" (no such command, DV without developer mode), "exit" (the loop condition finds _evt_exit set) *)
Leave(why) ==
    /\ c_state = "open"
    /\ why = "exit" => dev_exit
    /\ sent' = <<>>
    /\ Break(image, ey_dict)
    /\ UNCHANGED <<srv_watchdog, acl, deadtime, watchdog, ey_dict, dirty,
                   dev_exit, got_replace_ios, doerror, developermode>>

(* RevPiSlaveDev.stop() *)
DevStop ==
    /\ ~dev_exit
    /\ dev_exit' = TRUE
    /\ UNCHANGED <<image, srv_watchdog, c_state, acl, deadtime, watchdog,
                   ey_dict, dirty, got_replace_ios, doerror, developermode,
                   sent>>

(* RevPiSlave.watchdog = value *)
SetWatchdog(value) ==
    /\ srv_watchdog' = value
    /\ watchdog' = value
    /\ UNCHANGED <<image, c_state, acl, deadtime, ey_dict, dirty, dev_exit,
                   got_replace_ios, doerror, developermode, sent>>

----------------------------------------------------------------------------
(* The program supervisor, RevPiPlc *)

ZeroImage == [i \in Positions |-> 0]

(* _zeroprocimg(): the device is writable for the daemon *)
Zeroprocimg(img) == ZeroImage

(* the child process ends by itself, or is ended by the system *)
ExitCodes == {0, 1, -9}
(* what SIGTERM makes of the child: the signal's default, or a handler's exit *)
TermCodes == {-15, 0, 1}

(* Popen.poll() *)
Poll == IF child = "dead" THEN <<child_code>> ELSE None

(* the branch of run() that takes an exit for a crash *)
Crashed(code) == code > 0

(* _spopen() *)
Spopen ==
    /\ child' = "alive"
    /\ spawned' = spawned + 1
    /\ sigterm' = FALSE
    /\ sigkill' = FALSE
    /\ UNCHANGED child_code

(* a loop that restarts one pass early *)
DelayOverEarly(counter) == counter <= 0

(* "if self._delaycounter < 0:" the restart is due *)
DelayOver(counter) == counter < 0

(* run() up to the loop *)
PlcStart ==
    /\ plc_pc = "new"
    /\ plc_pc' = "loop"
    /\ Spopen
    /\ UNCHANGED <<connvars, newvars, exitcode, plc_exit, autoreload, autoreloaddelay2,
                   delaycounter, zeroonerror, zeroonexit, stop_timeout, stop_pc,
                   stop_count, waited>>

(* one pass of the loop of run(), the wait of half a second at its end included *)
PlcLoop ==
    /\ plc_pc = "loop"
    /\ ~plc_exit
    /\ spawned < MaxSpawns \/ ~autoreload \/ child # "dead"
    /\ exitcode' = Poll
    /\ UNCHANGED <<srv_watchdog, c_state, acl, deadtime, watchdog, ey_dict, dirty,
                   dev_exit, got_replace_ios, doerror, developermode, sent,
                   newvars>>
    /\ UNCHANGED <<plc_exit, autoreload, autoreloaddelay2, zeroonerror, zeroonexit,
                   stop_timeout, stop_pc, stop_count>>
    /\ IF Poll = None
       THEN UNCHANGED <<image, plc_pc, child, child_code, spawned, sigterm,
                        sigkill, delaycounter, waited>>
       ELSE LET first == delaycounter = autoreloaddelay2
                zero == IF Crashed(child_code) THEN zeroonerror ELSE zeroonexit
            IN  /\ image' = IF first /\ zero THEN Zeroprocimg(image) ELSE image
                /\ IF autoreload
                   THEN IF DelayOver(delaycounter - 1)
                        THEN /\ delaycounter' = autoreloaddelay2
                             /\ Spopen
                             /\ waited' = IF first THEN 0 ELSE waited
                             /\ UNCHANGED plc_pc
                        ELSE /\ delaycounter' = delaycounter - 1
                             /\ waited' = IF first THEN 1 ELSE waited + 1
                             /\ UNCHANGED <<plc_pc, child, child_code, spawned,
                                            sigterm, sigkill>>
                   ELSE /\ plc_pc' = "done"
                        /\ waited' = IF first THEN 0 ELSE waited
                        /\ UNCHANGED <<child, child_code, spawned, sigterm,
                                       sigkill, delaycounter>>

(* the loop condition finds _evt_exit set *)
PlcLoopEnd ==
    /\ plc_pc = "loop"
    /\ plc_exit
    /\ plc_pc' = "done"
    /\ UNCHANGED <<connvars, newvars, child, child_code, spawned, sigterm, sigkill,
                   exitcode, plc_exit, autoreload, autoreloaddelay2, delaycounter,
                   zeroonerror, zeroonexit, stop_timeout, stop_pc, stop_count,
                   waited>>

(* the control program ends *)
ChildExit(code) ==
    /\ child = "alive"
    /\ child' = "dead"
    /\ child_code' = code
    /\ UNCHANGED <<connvars, newvars, plc_pc, spawned, sigterm, sigkill, exitcode, plc_exit,
                   autoreload, autoreloaddelay2, delaycounter, zeroonerror,
                   zeroonexit, stop_timeout, stop_pc, stop_count, waited>>

(* the control program writes its outputs *)
ChildWrite ==
    /\ child = "alive"
    /\ image' = [i \in Positions |-> 1]
    /\ UNCHANGED <<srv_watchdog, c_state, acl, deadtime, watchdog, ey_dict, dirty,
                   dev_exit, got_replace_ios, doerror, developermode, sent,
                   newvars>>
    /\ UNCHANGED plcvars

(* autoreloaddelay = value *)
SetAutoreloaddelay(value) ==
    /\ autoreloaddelay2' = value * 2
    /\ delaycounter' = value * 2
    /\ UNCHANGED <<connvars, newvars, plc_pc, child, child_code, spawned, sigterm, sigkill,
                   exitcode, plc_exit, autoreload, zeroonerror, zeroonexit,
                   stop_timeout, stop_pc, stop_count, waited>>

(* autoreload = value *)
SetAutoreload(value) ==
    /\ autoreload' = value
    /\ UNCHANGED <<connvars, newvars, plc_pc, child, child_code, spawned, sigterm, sigkill,
                   exitcode, plc_exit, autoreloaddelay2, delaycounter, zeroonerror,
                   zeroonexit, stop_timeout, stop_pc, stop_count, waited>>

(* how many half seconds stop() waits for the child *)
StopSteps == 10

(* stop() up to its loop: _evt_exit.set(), terminate() *)
StopBegin ==
    /\ stop_pc = "idle"
    /\ plc_pc = "loop"
    /\ plc_exit' = TRUE
    /\ stop_count' = 0
    /\ stop_pc' = IF child = "none" THEN "done" ELSE "poll"
    /\ sigterm' = (child = "alive")
    /\ UNCHANGED <<connvars, newvars, plc_pc, child, child_code, spawned, sigkill, exitcode,
                   autoreload, autoreloaddelay2, delaycounter, zeroonerror,
                   zeroonexit, stop_timeout, waited>>

(* one pass of the loop of stop(): sleep(0.5) *)
StopPoll ==
    /\ stop_pc = "poll"
    /\ Poll = None /\ stop_count < StopSteps
    /\ stop_count' = stop_count + 1
    /\ UNCHANGED <<connvars, newvars, plc_pc, child, child_code, spawned, sigterm, sigkill,
                   exitcode, plc_exit, autoreload, autoreloaddelay2, delaycounter,
                   zeroonerror, zeroonexit, stop_timeout, stop_pc, waited>>

(* stop() after its loop: kill() if the child is alive, then the exit code and
   the process image.  reaped: the killed child is gone when poll() looks *)
StopFinish(reaped) ==
    /\ stop_pc = "poll"
    /\ ~(Poll = None /\ stop_count < StopSteps)
    /\ stop_pc' = "done"
    /\ IF Poll = None
       THEN /\ sigkill' = TRUE
            /\ child' = IF reaped THEN "dead" ELSE "alive"
            /\ child_code' = IF reaped THEN -9 ELSE child_code
            /\ exitcode' = IF reaped THEN <<-9>> ELSE None
       ELSE /\ reaped
            /\ exitcode' = Poll
            /\ UNCHANGED <<sigkill, child, child_code>>
    /\ image' = IF \/ zeroonexit /\ exitcode' = <<0>>
                   \/ zeroonerror /\ exitcode' # <<0>>
                THEN Zeroprocimg(image) ELSE image
    /\ UNCHANGED <<srv_watchdog, c_state, acl, deadtime, watchdog, ey_dict, dirty,
                   dev_exit, got_replace_ios, doerror, developermode, sent,
                   newvars>>
    /\ UNCHANGED <<plc_pc, spawned, sigterm, plc_exit, autoreload,
                   autoreloaddelay2, delaycounter, zeroonerror, zeroonexit,
                   stop_timeout, stop_count, waited>>

(* no supervisor *)
PlcNone ==
    /\ plc_pc = "none"
    /\ child = "none"
    /\ child_code = 0
    /\ spawned = 0
    /\ sigterm = FALSE
    /\ sigkill = FALSE
    /\ exitcode = None
    /\ plc_exit = FALSE
    /\ autoreload = FALSE
    /\ autoreloaddelay2 = 0
    /\ delaycounter = 0
    /\ zeroonerror = FALSE
    /\ zeroonexit = FALSE
    /\ stop_timeout = 1
    /\ stop_pc = "idle"
    /\ stop_count = 0
    /\ waited = 0

(* no connection to the PLC-Server *)
ConnNone ==
    /\ image = ZeroImage
    /\ srv_watchdog = TRUE
    /\ developermode = FALSE
    /\ c_state = "none"
    /\ acl = 0
    /\ deadtime = None
    /\ watchdog = TRUE
    /\ ey_dict = <<>>
    /\ dirty = TRUE
    /\ dev_exit = FALSE
    /\ got_replace_ios = FALSE
    /\ doerror = FALSE
    /\ sent = <<>>

(* the rest of the daemon is not looked at *)
AclNone ==
    /\ dict_acl = {}
    /\ dict_knownips = {}
    /\ acl_filename = <<>>
    /\ acl_ret = <<>>

RpcNone ==
    /\ requestacl = -1
    /\ rpc_ret = [ip |-> <<>>, call |-> <<>>, status |-> 0, ran |-> {},
                  denied |-> {}]

UplNone ==
    /\ fs_files = {}
    /\ fs_dirs = {}
    /\ upl_ret = <<>>

(* a daemon whose mainloop has not run: the configuration is the first one, the
   hardware-config file was never looked at *)
MainNone ==
    /\ evt_loadconfig = FALSE
    /\ pending = 0
    /\ cfg = DefaultConfig
    /\ rsc = [mtime |-> 1, data |-> configrsc, there |-> "ok"]
    /\ pictorymtime = 0
    /\ hash_pict = HASH_PICT
    /\ triggered = FALSE
    /\ not_implemented = FALSE
    /\ loop_ret = NoLoop
    /\ main_pc = "top"

(* a soft watchdog that was made with timeout 0 and without a process *)
WdNone ==
    /\ wd_pc = "none"
    /\ wd_exit = TRUE
    /\ wd_stopped = FALSE
    /\ wd_timeout = 0
    /\ wd_triggered = FALSE
    /\ wd_process = "none"
    /\ wd_sigkill = FALSE
    /\ wd_mrk = 0
    /\ wd_seen = 0
    /\ wd_elapsed = 0
    /\ wd_bit = 0
    /\ wd_frozen = FALSE
    /\ wd_join = "none"

(* a daemon without a PLC-Server *)
SrvNone ==
    /\ ip_level = <<>>
    /\ dev = <<>>
    /\ th_dev = {}
    /\ acc = <<>>
    /\ checked = FALSE
    /\ th_plcserver = [gen |-> 0, st |-> "none"]
    /\ srv_cfg = [plcserver |-> FALSE, bindip |-> 1, port |-> 1]

(* the components that have a model of their own are not looked at *)
StopNone ==
    /\ so = "none"
    /\ fut = "none"
    /\ plw = "none"
    /\ raised = "none"

(* no log pipe *)
PipeNone ==
    /\ lp_pipe = <<>>
    /\ lp_buf = <<>>
    /\ lp_line = <<>>
    /\ lp_file = <<>>
    /\ lp_fh = "closed"
    /\ lp_lock = "free"
    /\ lp_pc = "new"
    /\ lp_stop = "idle"
    /\ lp_exit = FALSE
    /\ lp_next = 1

(* no ACL manager that is used by two threads *)
NoLoad == [pc |-> "idle", todo |-> <<>>]
NoLookup == [pc |-> "idle", ip |-> <<>>, keys |-> <<>>, res |-> <<>>,
             raised |-> FALSE]
RaceNone ==
    /\ dict_regex = {}
    /\ ld = NoLoad
    /\ lk = NoLookup

(* no watcher for the reset of the driver *)
RdNone ==
    /\ rd_triggered = FALSE
    /\ rd_pc = "idle"
    /\ rd_rc = FALSE
    /\ rd_owed = FALSE
    /\ rd_events = 0
    /\ rd_seen = 0

(* no configuration that a client sets *)
ScNone ==
    /\ sc_conf = <<>>
    /\ sc_file = <<>>
    /\ sc_acl = <<>>
    /\ sc_aclfile = <<>>
    /\ sc_ret = <<>>

LastNone ==
    /\ RdNone
    /\ ScNone

MoreNone ==
    /\ PipeNone
    /\ RaceNone
    /\ LastNone

LateNone ==
    /\ WdNone
    /\ SrvNone
    /\ StopNone
    /\ MoreNone

(* all but the mainloop, the supervisor and the connection is not looked at *)
NotMainNone ==
    /\ stream = <<>>
    /\ AclNone
    /\ RpcNone
    /\ UplNone
    /\ LateNone

NewNone ==
    /\ NotMainNone
    /\ MainNone

PlcInit ==
    /\ ConnNone
    /\ NewNone
    /\ plc_pc = "new"
    /\ child = "none"
    /\ child_code = 0
    /\ spawned = 0
    /\ sigterm = FALSE
    /\ sigkill = FALSE
    /\ exitcode = None
    /\ plc_exit = FALSE
    /\ autoreload \in BOOLEAN
    /\ autoreloaddelay2 \in {2 * d : d \in 0..MaxDelay}
    /\ delaycounter = autoreloaddelay2
    /\ zeroonerror \in BOOLEAN
    /\ zeroonexit \in BOOLEAN
    /\ stop_timeout \in 1..MaxStopTimeout
    /\ stop_pc = "idle"
    /\ stop_count = 0
    /\ waited = 0

(* a killed child ends by the signal; one that got SIGTERM may end by it *)
DoChildExit ==
    \E code \in (IF sigkill THEN {-9}
                 ELSE IF sigterm THEN ExitCodes \cup TermCodes ELSE ExitCodes) :
        ChildExit(code)

DoSetAutoreloaddelay == \E d \in 0..MaxDelay : SetAutoreloaddelay(d)

DoSetAutoreload == \E v \in BOOLEAN : SetAutoreload(v)

DoStopFinish == \E reaped \in BOOLEAN : StopFinish(reaped)

PlcNext ==
    \/ PlcStart \/ PlcLoop \/ PlcLoopEnd \/ DoChildExit
    \/ ChildWrite \/ DoSetAutoreloaddelay \/ DoSetAutoreload
    \/ StopBegin \/ StopPoll \/ DoStopFinish

SpecPlc == PlcInit /\ [][PlcNext]_vars

----------------------------------------------------------------------------
(* One connection of the PLC-Server and what its client sends *)

Faults == {"none", "recv", "io", "send"}

(* what happens in a pass: a fault, or none and the run time of the pass
   (which only counts when there is a deadline) *)
Outcomes(fs, timed) ==
    {<<f, t>> \in fs \X Times : (f # "none" \/ ~timed) => t = 1}
Timed == deadtime # None

(* records of an FD payload that lie inside the image *)
Records == {<<p, b>> : p \in Positions, b \in UNION {Str(n) : n \in 1..ImgLen}}
InRecords == {r \in Records : r[1] + Len(r[2]) <= ImgLen}
ShortLists == {<<>>} \cup {<<r>> : r \in InRecords}
PairLists == {<<r, q>> : r \in InRecords, q \in InRecords}
RecordLists == ShortLists \cup PairLists
(* FD payloads: no record, one record, one record and a byte too many *)
FdBuffers == {EncodeRecords(rs) : rs \in ShortLists}
                \cup {EncodeRecords(<<r>>) \o <<0>> : r \in InRecords}
(* FD payloads of two records *)
FdPairBuffers == {EncodeRecords(rs) : rs \in PairLists}

ConnInit ==
    /\ PlcNone
    /\ NewNone
    /\ image \in [Positions -> Bytes]
    /\ srv_watchdog \in BOOLEAN
    /\ developermode = FALSE
    /\ c_state = "open"
    /\ acl \in {0, 1}
    /\ deadtime = None
    /\ watchdog = srv_watchdog
    /\ ey_dict = <<>>
    /\ dirty = TRUE
    /\ dev_exit = FALSE
    /\ got_replace_ios = FALSE
    /\ doerror = FALSE
    /\ sent = <<>>

DoDA ==
    /\ UNCHANGED <<plcvars, newvars>>
    /\ \E p \in 0..ImgLen, n \in Lens,
       o \in Outcomes({"none", "io", "send"}, Timed) :
        DA(p, n, o[1], o[2])

(* a payload that is not received, or not written, is of no account *)
Sent(fault, payloads) ==
    IF fault \in {"recv", "io"} THEN {<<>>} ELSE payloads

DoWD ==
    /\ UNCHANGED <<plcvars, newvars>>
    /\ \E p \in Positions, o \in Outcomes(Faults, Timed) :
        \E data \in Sent(o[1], Payloads(p)) : WD(p, data, o[1], o[2])

DoFD ==
    /\ UNCHANGED <<plcvars, newvars>>
    /\ \E o \in Outcomes(Faults, Timed) :
        \E buf \in Sent(o[1], FdBuffers) : FD(buf, o[1], o[2])

DoFDPairs ==
    /\ UNCHANGED <<plcvars, newvars>>
    /\ \E o \in Outcomes({"none", "send"}, Timed) :
        \E buf \in FdPairBuffers : FD(buf, o[1], o[2])

DoPing ==
    /\ UNCHANGED <<plcvars, newvars>>
    /\ \E o \in Outcomes({"none", "send"}, Timed) : Ping(o[1], o[2])

DoCF ==
    /\ UNCHANGED <<plcvars, newvars>>
    /\ \E ms \in 0..MaxTimeout, o \in Outcomes({"none", "send"}, TRUE) :
        CF(ms, o[1], o[2])

DoEY ==
    /\ UNCHANGED <<plcvars, newvars>>
    /\ \E p \in Positions, control \in {0, 254, 255},
       o \in Outcomes({"none", "recv", "send"}, Timed) :
        \E data \in IF control \in {254, 255} THEN {<<>>}
                     ELSE Sent(o[1], Payloads(p)) :
            EY(p, control, data, o[1], o[2])

DoPI ==
    /\ UNCHANGED <<plcvars, newvars>>
    /\ \E readable \in BOOLEAN, o \in Outcomes({"none", "send"}, Timed) :
        PI(readable, o[1], o[2])

DoPH ==
    /\ UNCHANGED <<plcvars, newvars>>
    /\ \E o \in Outcomes({"none", "send"}, Timed) : PH(o[1], o[2])

DoRP ==
    /\ UNCHANGED <<plcvars, newvars>>
    /\ \E readable \in BOOLEAN, o \in Outcomes({"none", "send"}, Timed) :
        RP(readable, o[1], o[2])

DoRH ==
    /\ UNCHANGED <<plcvars, newvars>>
    /\ \E o \in Outcomes({"none", "send"}, Timed) : RH(o[1], o[2])

DoIC ==
    /\ UNCHANGED <<plcvars, newvars>>
    /\ \E ioctl_ok \in BOOLEAN,
       o \in Outcomes({"none", "recv", "send"}, Timed) :
        IC(ioctl_ok, o[1], o[2])

DoDV ==
    /\ UNCHANGED <<plcvars, newvars>>
    /\ \E c \in {97, 98, 0}, d \in {0, 1}, o \in Outcomes({"none", "send"}, Timed) :
        DV(c, d, o[1], o[2])

DoLeave ==
    /\ UNCHANGED <<plcvars, newvars>>
    /\ \E why \in {"recv", "frame", "cmd", "exit"} : Leave(why)

DoSetWatchdog ==
    /\ UNCHANGED <<plcvars, newvars>>
    /\ \E value \in BOOLEAN : SetWatchdog(value)

DoEX == UNCHANGED <<plcvars, newvars>> /\ EX

DoDevStop == UNCHANGED <<plcvars, newvars>> /\ DevStop

ConnNext ==
    \/ DoDA \/ DoWD \/ DoFD \/ DoPing \/ DoCF \/ DoEY \/ DoPI \/ DoPH
    \/ DoRP \/ DoRH \/ DoEX \/ DoIC \/ DoLeave \/ DoDevStop \/ DoSetWatchdog

SpecConn == ConnInit /\ [][ConnNext]_vars

(* a client that writes with FD and reads with DA *)
FdInit == ConnInit /\ image = ZeroImage

FdNext == DoFD \/ DoFDPairs \/ DoDA \/ DoCF \/ DoSetWatchdog

SpecFD == FdInit /\ [][FdNext]_vars

(* a client that reads with DA *)
DaNext == DoDA \/ DoCF \/ DoSetWatchdog

SpecDA == ConnInit /\ [][DaNext]_vars

----------------------------------------------------------------------------
(* The socket of one connection: the client writes requests to it, the     *)
(* worker reads them.  One element of stream is either a whole 16 byte     *)
(* frame <<"H", cmd, position, length, control>> or one byte <<"b", v>> of *)
(* a payload.  The bytes of the model are below 0x17, the stop byte, so a  *)
(* read of 16 bytes that starts inside a payload never gives a valid frame.*)

Frame(cmd, position, length, control) == <<"H", cmd, position, length, control>>

RECURSIVE Tokens(_)
Tokens(data) ==
    IF data = <<>> THEN <<>> ELSE <<<<"b", Head(data)>>>> \o Tokens(Tail(data))

(* a request as the client sends it: the frame, then length bytes of payload *)
Wire(cmd, position, control, data) ==
    <<Frame(cmd, position, Len(data), control)>> \o Tokens(data)

(* the frame at the head of the socket *)
Header == Head(stream)
Aligned == stream # <<>> /\ Header[1] = "H"
Request(cmd) == Aligned /\ Header[2] = cmd

(* the socket after the frame and n bytes of payload were read *)
Drop(n) == SubSeq(stream, Min(n, Len(stream) - 1) + 2, Len(stream))

(* "while length > 0: recv_into(...)": the bytes that are read as payload *)
RECURSIVE Values(_)
Values(tokens) ==
    IF tokens = <<>> THEN <<>>
    ELSE <<IF Head(tokens)[1] = "b" THEN Head(tokens)[2] ELSE 0>>
             \o Values(Tail(tokens))
Recv(length) == Values(SubSeq(stream, 2, Min(length, Len(stream) - 1) + 1))

(* the client is gone before length bytes have come: recv_into returns 0 *)
Starved(length, fault) == Len(stream) - 1 < length => fault = "recv"

(* a worker that reads the payload of every EY request *)
EyReceivesAlways(control) == TRUE

(* the branch of EY that receives dirty bytes *)
EyReceives(control) == control \notin {254, 255}

FrDA ==
    /\ Request("DA") /\ UNCHANGED notframe
    /\ stream' = Drop(0)
    /\ \E o \in Outcomes({"none", "send"}, Timed) :
        DA(Header[3], Header[4], o[1], o[2])

FrWD ==
    /\ Request("WD") /\ UNCHANGED notframe
    /\ stream' = IF WriteAllowed(acl) THEN Drop(Header[4]) ELSE Drop(0)
    /\ \E o \in Outcomes({"none", "recv", "send"}, Timed) :
        /\ Starved(Header[4], o[1])
        /\ WD(Header[3], Recv(Header[4]), o[1], o[2])

FrFD ==
    /\ Request("FD") /\ UNCHANGED notframe
    /\ stream' = IF WriteAllowed(acl) THEN Drop(Header[4]) ELSE Drop(0)
    /\ \E o \in Outcomes({"none", "recv", "send"}, Timed) :
        /\ Starved(Header[4], o[1])
        /\ FD(Recv(Header[4]), o[1], o[2])

FrPing ==
    /\ Request("ping") /\ UNCHANGED notframe
    /\ stream' = Drop(0)
    /\ \E o \in Outcomes({"none", "send"}, Timed) : Ping(o[1], o[2])

FrCF ==
    /\ Request("CF") /\ UNCHANGED notframe
    /\ stream' = Drop(0)
    /\ \E o \in Outcomes({"none", "send"}, TRUE) : CF(Header[3], o[1], o[2])

FrEY ==
    /\ Request("EY") /\ UNCHANGED notframe
    /\ stream' = IF WriteAllowed(acl) /\ EyReceives(Header[5])
                 THEN Drop(Header[4]) ELSE Drop(0)
    /\ \E o \in Outcomes({"none", "recv", "send"}, Timed) :
        /\ EyReceives(Header[5]) => Starved(Header[4], o[1])
        /\ EY(Header[3], Header[5], Recv(Header[4]), o[1], o[2])

FrPI ==
    /\ Request("PI") /\ UNCHANGED notframe
    /\ stream' = Drop(0)
    /\ \E readable \in BOOLEAN, o \in Outcomes({"none", "send"}, Timed) :
        PI(readable, o[1], o[2])

FrPH ==
    /\ Request("PH") /\ UNCHANGED notframe
    /\ stream' = Drop(0)
    /\ \E o \in Outcomes({"none", "send"}, Timed) : PH(o[1], o[2])

FrRP ==
    /\ Request("RP") /\ UNCHANGED notframe
    /\ stream' = Drop(0)
    /\ \E readable \in BOOLEAN, o \in Outcomes({"none", "send"}, Timed) :
        RP(readable, o[1], o[2])

FrRH ==
    /\ Request("RH") /\ UNCHANGED notframe
    /\ stream' = Drop(0)
    /\ \E o \in Outcomes({"none", "send"}, Timed) : RH(o[1], o[2])

FrEX ==
    /\ Request("EX") /\ UNCHANGED notframe
    /\ stream' = Drop(0)
    /\ EX

FrIC ==
    /\ Request("IC") /\ UNCHANGED notframe
    /\ stream' = Drop(Header[4])
    /\ \E ioctl_ok \in BOOLEAN, o \in Outcomes({"none", "recv", "send"}, Timed) :
        /\ Starved(Header[4], o[1])
        /\ IC(ioctl_ok, o[1], o[2])

(* the loop ends before any handler: the client has closed the socket, the
   16 bytes read are no frame, or the frame is of no command *)
FrLeave ==
    /\ UNCHANGED notframe
    /\ IF stream = <<>> THEN stream' = stream /\ Leave("recv")
       ELSE IF ~Aligned THEN stream' = <<>> /\ Leave("frame")
       ELSE Header[2] = "XX" /\ stream' = Drop(0) /\ Leave("cmd")

(* what a client sends in one request *)
Requests ==
    {Wire(cmd, 0, 0, <<>>) :
        cmd \in {"ping", "PI", "PH", "RP", "RH", "EX", "XX"}}
    \cup {<<Frame("DA", 0, n, 0)>> : n \in {0, 1}}
    \cup {<<Frame("CF", ms, 0, 0)>> : ms \in {0, 1}}
    \cup {Wire(cmd, 0, control, data) :
            cmd \in {"WD", "IC"}, control \in {0}, data \in {<<>>, <<1>>}}
    \cup {Wire("EY", 0, control, data) :
            control \in {0, 254, 255}, data \in {<<>>, <<1>>}}
    \cup {Wire("FD", 0, 0, buf) :
            buf \in {<<>>, <<0>>, EncodeRecords(<<<<0, <<1>>>>>>)}}

RECURSIVE Streams(_)
Streams(n) ==
    IF n = 0 THEN {<<>>}
    ELSE Streams(n - 1) \cup {r \o t : r \in Requests, t \in Streams(n - 1)}

FrameInit ==
    /\ PlcNone
    /\ image = ZeroImage
    /\ srv_watchdog \in BOOLEAN
    /\ developermode = FALSE
    /\ c_state = "open"
    /\ acl \in {0, 1}
    /\ deadtime = None
    /\ watchdog = srv_watchdog
    /\ ey_dict = <<>>
    /\ dirty = TRUE
    /\ dev_exit = FALSE
    /\ got_replace_ios = FALSE
    /\ doerror = FALSE
    /\ sent = <<>>
    /\ stream \in Streams(MaxRequests)
    /\ AclNone
    /\ RpcNone
    /\ UplNone
    /\ MainNone
    /\ LateNone

FrameNext ==
    \/ FrDA \/ FrWD \/ FrFD \/ FrPing \/ FrCF \/ FrEY \/ FrPI \/ FrPH
    \/ FrRP \/ FrRH \/ FrEX \/ FrIC \/ FrLeave

SpecFrame == FrameInit /\ [][FrameNext]_vars

----------------------------------------------------------------------------
(* The ACL manager, IpAclManager.  A string is a sequence of characters.   *)

(* the code points by which Python orders the characters of a string *)
Code == [c \in {" ", "#", "*", ",", ".", "0", "1", "2", "3", "4", "5", "9"} |->
            CASE c = " " -> 32 [] c = "#" -> 35 [] c = "*" -> 42 [] c = "," -> 44
              [] c = "." -> 46 [] c = "0" -> 48 [] c = "1" -> 49 [] c = "2" -> 50
              [] c = "3" -> 51 [] c = "4" -> 52 [] c = "5" -> 53 [] c = "9" -> 57]

(* \d *)
IsDigit(c) == Code[c] >= 48 /\ Code[c] <= 57

(* s < t for strings *)
RECURSIVE StrLess(_, _)
StrLess(s, t) ==
    IF t = <<>> THEN FALSE
    ELSE IF s = <<>> THEN TRUE
    ELSE IF Head(s) # Head(t) THEN Code[Head(s)] < Code[Head(t)]
    ELSE StrLess(Tail(s), Tail(t))

(* s.split(sep): the parts of s between the separators *)
RECURSIVE Split(_, _)
Split(s, sep) ==
    IF \A i \in 1..Len(s) : s[i] # sep THEN <<s>>
    ELSE LET i == CHOOSE k \in 1..Len(s) :
                      s[k] = sep /\ \A j \in 1..(k - 1) : s[j] # sep
         IN  <<SubSeq(s, 1, i - 1)>> \o Split(SubSeq(s, i + 1, Len(s)), sep)

(* s.split(): the runs of s that hold no blank *)
Words(s) == SelectSeq(Split(s, " "), LAMBDA w : w # <<>>)

(* s.strip() *)
RECURSIVE Strip(_)
Strip(s) ==
    IF s # <<>> /\ Head(s) = " " THEN Strip(Tail(s))
    ELSE IF s # <<>> /\ s[Len(s)] = " " THEN Strip(SubSeq(s, 1, Len(s) - 1))
    ELSE s

(* ([\d\*]{1,3}\.){3}[\d\*]{1,3} matches all of s *)
IsPattern(s) ==
    LET parts == Split(s, ".")
    IN  /\ Len(parts) = 4
        /\ \A i \in 1..4 :
            /\ Len(parts[i]) \in 1..3
            /\ \A j \in 1..Len(parts[i]) :
                IsDigit(parts[i][j]) \/ parts[i][j] = "*"

MinLevel == 0
MaxLevel == 4

(* a manager that takes any digit for a level *)
IsLevelAny(c) == IsDigit(c)

(* [minlevel-maxlevel] *)
IsLevel(c) == Code[c] >= 48 + MinLevel /\ Code[c] <= 48 + MaxLevel

(* refullmatch(self.__re_ipacl, s): entries of pattern "," level, each with
   or without one blank after it *)
RECURSIVE MatchAcl(_)
MatchAcl(s) ==
    IF s = <<>> THEN TRUE
    ELSE LET head == Split(s, ",")[1]
             n == Len(head) + 2
         IN  /\ n <= Len(s)
             /\ IsPattern(head)
             /\ IsLevel(s[n])
             /\ MatchAcl(SubSeq(s, IF n < Len(s) /\ s[n + 1] = " "
                                   THEN n + 2 ELSE n + 1, Len(s)))

(* int(s): <<n>>, or None when it raises ValueError *)
RECURSIVE IntOf(_)
IntOf(s) ==
    IF s = <<>> \/ \E i \in 1..Len(s) : ~IsDigit(s[i]) THEN None
    ELSE IF Len(s) = 1 THEN <<Code[s[1]] - 48>>
    ELSE <<10 * IntOf(SubSeq(s, 1, Len(s) - 1))[1] + Code[s[Len(s)]] - 48>>

(* d[key] = value *)
Put(d, key, value) == {e \in d : e[1] # key} \cup {<<key, value>>}

(* the loop of __set_acl over value.split(): the list it has filled, and
   whether int(level) raised on the way *)
RECURSIVE Fill(_, _)
Fill(words, d) ==
    IF words = <<>> THEN [acl |-> d, raised |-> FALSE]
    ELSE LET ip == Split(Head(words), ",")[1]
             level == IntOf(SubSeq(Head(words), Len(ip) + 2, Len(Head(words))))
         IN  IF level = None THEN [acl |-> d, raised |-> TRUE]
             ELSE Fill(Tail(words), Put(d, ip, level[1]))

(* refullmatch(self.__dict_regex[aclip], s): "*" stands for \d{1,3}, every
   other character for itself *)
RECURSIVE MatchIp(_, _)
MatchIp(aclip, s) ==
    IF aclip = <<>> THEN s = <<>>
    ELSE IF Head(aclip) = "*"
    THEN \E n \in 1..3 :
            /\ n <= Len(s)
            /\ \A i \in 1..n : IsDigit(s[i])
            /\ MatchIp(Tail(aclip), SubSeq(s, n + 1, Len(s)))
    ELSE s # <<>> /\ Head(s) = Head(aclip) /\ MatchIp(Tail(aclip), Tail(s))

(* a manager that tries the patterns in ascending order *)
FirstAscending(keys) == CHOOSE k \in keys : \A o \in keys : ~StrLess(o, k)

(* the first of keys in sorted(..., reverse=True) *)
First(keys) == CHOOSE k \in keys : \A o \in keys : ~StrLess(k, o)

(* get_acllevel(ipaddress): what it returns *)
Level(ipaddress) ==
    IF \E e \in dict_knownips : e[1] = ipaddress
    THEN (CHOOSE e \in dict_knownips : e[1] = ipaddress)[2]
    ELSE LET hits == {e[1] : e \in {x \in dict_acl : MatchIp(x[1], ipaddress)}}
         IN  IF hits = {} THEN -1
             ELSE (CHOOSE e \in dict_acl : e[1] = First(hits))[2]

get_acllevel(ipaddress) ==
    /\ acl_ret' = <<"level", ipaddress, Level(ipaddress)>>
    /\ dict_knownips' = IF Level(ipaddress) = -1 THEN dict_knownips
                        ELSE Put(dict_knownips, ipaddress, Level(ipaddress))
    /\ UNCHANGED <<dict_acl, acl_filename>>

(* the lines of the file without their comments, each followed by a blank *)
RECURSIVE Lines(_)
Lines(file) ==
    IF file = <<>> THEN <<>>
    ELSE LET buff == Strip(Split(Head(file), "#")[1])
         IN  (IF Len(buff) > 0 THEN buff \o <<" ">> ELSE <<>>) \o Lines(Tail(file))

(* what the users of the manager hand to it *)
Ip4(first, last) == first \o <<".", "0", ".", "0", ".">> \o last
Ips == {Ip4(<<"1">>, <<"2">>), Ip4(<<"1">>, <<"2", "3">>), Ip4(<<"3">>, <<"2">>)}
AclPatterns ==
    {Ip4(a, b) : a \in {<<"1">>, <<"*">>}, b \in {<<"2">>, <<"*">>}}
AclEntries == {ip \o <<",", l>> : ip \in AclPatterns, l \in {"0", "4", "5"}}

RECURSIVE AclTexts(_)
AclTexts(n) ==
    IF n = 0 THEN {<<>>}
    ELSE AclTexts(n - 1)
         \cup {e \o sep \o t : e \in AclEntries, sep \in {<<>>, <<" ">>},
                              t \in AclTexts(n - 1) \ {<<>>}}
         \cup AclEntries

(* texts that are no ACL at all *)
Junk == {<<"#">>, <<" ">>, Ip4(<<"1">>, <<"2">>), <<"1", ",", "0">>}

AclLists == AclTexts(MaxEntries) \cup Junk

(* files of one line, and of two lines with a comment in the first *)
AclFiles ==
    {<<t>> : t \in AclTexts(1) \cup Junk}
    \cup {<<t \o <<"#", "1">>, Ip4(<<"1">>, <<"2">>) \o <<",", "4">>>> :
            t \in AclTexts(1)}

(* the ACL files of the XML-RPC server: one entry of any level *)
RpcFiles ==
    {<<ip \o <<",", l>>>> :
        ip \in {Ip4(<<"1">>, <<"2">>), Ip4(<<"*">>, <<"*">>)},
        l \in {"0", "1", "2", "3", "4"}}

(* str_acl.strip() of loadaclfile for the files of the model *)
str_acl == [file \in AclFiles \cup RpcFiles |-> Strip(Lines(file))]

AllTexts ==
    LET texts == AclLists \cup {str_acl[file] : file \in AclFiles \cup RpcFiles}
    IN  texts \cup {Strip(t) : t \in texts}

(* refullmatch(self.__re_ipacl, value) for the texts of the model *)
re_ipacl == [value \in AllTexts |-> MatchAcl(value)]

(* what the loop of __set_acl makes of the texts of the model *)
set_acl == [value \in AllTexts |-> Fill(Words(value), {})]

(* loadacl(text) when called from loadaclfile(filename) (named TRUE) or
   by itself; an exception of __set_acl leaves both *)
loadacl(text, named, filename) ==
    IF ~re_ipacl[text]
    THEN acl_ret' = <<"load", FALSE>>
         /\ UNCHANGED <<dict_acl, dict_knownips, acl_filename>>
    ELSE IF ~re_ipacl[Strip(text)]
    THEN acl_ret' = <<"raised">>
         /\ UNCHANGED <<dict_acl, dict_knownips, acl_filename>>
    ELSE LET filled == set_acl[Strip(text)]
         IN  /\ dict_acl' = filled.acl
             /\ dict_knownips' = {}
             /\ acl_ret' = IF filled.raised THEN <<"raised">> ELSE <<"load", TRUE>>
             /\ acl_filename' = IF named /\ ~filled.raised THEN <<filename>>
                                ELSE acl_filename

(* loadaclfile(filename): readable is access(filename, R_OK), file the
   lines of the file *)
loadaclfile(filename, readable, file) ==
    IF ~readable
    THEN acl_ret' = <<"load", FALSE>>
         /\ UNCHANGED <<dict_acl, dict_knownips, acl_filename>>
    ELSE loadacl(str_acl[file], TRUE, filename)

AclInit ==
    /\ PlcNone
    /\ ConnNone
    /\ RpcNone
    /\ UplNone
    /\ MainNone
    /\ LateNone
    /\ stream = <<>>
    /\ dict_acl = {}
    /\ dict_knownips = {}
    /\ acl_filename = <<>>
    /\ acl_ret = <<>>

DoLevel ==
    /\ UNCHANGED notacl
    /\ \E ip \in Ips : get_acllevel(ip)

DoLoadacl ==
    /\ UNCHANGED notacl
    /\ \E text \in AclLists : loadacl(text, FALSE, "")

DoLoadaclfile ==
    /\ UNCHANGED notacl
    /\ \E filename \in {"a", "b"}, readable \in BOOLEAN, file \in AclFiles :
        loadaclfile(filename, readable, file)

AclNext == DoLevel \/ DoLoadacl \/ DoLoadaclfile

SpecAcl == AclInit /\ [][AclNext]_vars

----------------------------------------------------------------------------
(* The XML-RPC server, SaveXMLRPCServer, with the ACL manager it asks *)

(* self.funcacls after _loadconfig has registered the functions *)
funcacls ==
    [m \in {"version", "xmlmodus", "load_applog", "load_plclog", "plcexitcode",
            "plcrunning", "plcstart", "plcstop", "reload", "mqttrunning",
            "plcslaverunning"} |-> 0]
    @@ [m \in {"psstart", "psstop"} |-> 1]
    @@ [m \in {"get_config", "get_filelist", "get_pictoryrsc", "get_procimg",
               "plcdownload"} |-> 2]
    @@ [m \in {"plcupload", "plcuploadclean", "resetpicontrol", "mqttstart",
               "mqttstop", "plcslavestart", "plcslavestop", "plcdeletefile",
               "plcdownload_file"} |-> 3]
    @@ [m \in {"set_config", "set_pictoryrsc"} |-> 4]

(* self.funcs: what is registered, with the functions that
   register_introspection_functions and register_multicall_functions add *)
funcs ==
    DOMAIN funcacls \cup {"system.listMethods", "system.methodHelp",
                          "system.methodSignature", "system.multicall"}

(* a server that checks no level *)
CallAllowedAlways(level, method) == TRUE

(* "if self.requestacl < self.funcacls.get(method, -1):" does not raise *)
CallAllowed(level, method) ==
    ~(level < (IF method \in DOMAIN funcacls THEN funcacls[method] ELSE -1))

(* _dispatch(method, params) of a method that is not system.multicall: the
   methods whose body has run and those that raised RuntimeError *)
Dispatch(level, method) ==
    [ran |-> IF CallAllowed(level, method) /\ method \in funcs
             THEN {method} ELSE {},
     denied |-> IF CallAllowed(level, method) THEN {} ELSE {method}]

(* _dispatch of a request: call is <<method>>, or <<"system.multicall",
   methods>>, whose body hands every method of its list to _dispatch *)
DispatchCall(level, call) ==
    IF call[1] # "system.multicall" THEN Dispatch(level, call[1])
    ELSE IF ~CallAllowed(level, call[1])
    THEN [ran |-> {}, denied |-> {call[1]}]
    ELSE [ran |-> {call[1]}
                    \cup UNION {Dispatch(level, call[2][i]).ran :
                                  i \in 1..Len(call[2])},
          denied |-> UNION {Dispatch(level, call[2][i]).denied :
                              i \in 1..Len(call[2])}]

(* one request: parse_request, then do_POST with _dispatch *)
RpcRequest(ip, call) ==
    /\ get_acllevel(ip)
    /\ requestacl' = Level(ip)
    /\ rpc_ret' =
        IF requestacl' >= 0
        THEN [ip |-> ip, call |-> call, status |-> 200,
              ran |-> DispatchCall(requestacl', call).ran,
              denied |-> DispatchCall(requestacl', call).denied]
        ELSE [ip |-> ip, call |-> call, status |-> 401, ran |-> {},
              denied |-> {}]

(* the clients and their calls *)
RpcIps == {Ip4(<<"1">>, <<"2">>), Ip4(<<"3">>, <<"2">>)}
Multicalls == {"version", "get_config", "set_config"}
RpcCalls ==
    {<<m>> : m \in (funcs \ {"system.multicall"}) \cup {"nope"}}
    \cup {<<"system.multicall", list>> :
            list \in UNION {[1..n -> Multicalls] : n \in 0..MaxCalls}}

RpcInit ==
    /\ PlcNone
    /\ ConnNone
    /\ AclNone
    /\ RpcNone
    /\ UplNone
    /\ MainNone
    /\ LateNone
    /\ stream = <<>>

DoRpcRequest ==
    /\ UNCHANGED notrpc
    /\ \E ip \in RpcIps, call \in RpcCalls : RpcRequest(ip, call)

(* _loadconfig loads the ACL file of the server *)
DoRpcAcl ==
    /\ UNCHANGED <<notrpc, rpcvars>>
    /\ \E readable \in BOOLEAN, file \in RpcFiles :
        loadaclfile("a", readable, file)

RpcNext == DoRpcRequest \/ DoRpcAcl

SpecRpc == RpcInit /\ [][RpcNext]_vars

----------------------------------------------------------------------------
(* plcupload: files that clients send into the working directory.  Paths   *)
(* are strings, as in the ACL manager.                                     *)

(* self.plcworkdir; _loadconfig has made it the current directory *)
plcworkdir == <<"/", "w">>

(* filename.replace("\\", "/") *)
Slashes(s) == [i \in 1..Len(s) |-> IF s[i] = "\\" THEN "/" ELSE s[i]]

(* os.path.dirname(p) *)
Dirname(p) ==
    LET slashes == {i \in 1..Len(p) : p[i] = "/"}
        head == IF slashes = {} THEN <<>>
                ELSE SubSeq(p, 1, CHOOSE i \in slashes : \A j \in slashes : j <= i)
        last == {i \in 1..Len(head) : head[i] # "/"}
    IN  IF last = {} THEN head
        ELSE SubSeq(head, 1, CHOOSE i \in last : \A j \in last : j <= i)

(* os.path.join(a, b) *)
PathJoin(a, b) ==
    IF b # <<>> /\ Head(b) = "/" THEN b
    ELSE IF a = <<>> \/ a[Len(a)] = "/" THEN a \o b
    ELSE a \o <<"/">> \o b

(* the components of os.path.normpath(p) for an absolute p *)
RECURSIVE Norm(_, _)
Norm(comps, new_comps) ==
    IF comps = <<>> THEN new_comps
    ELSE IF Head(comps) \in {<<>>, <<".">>} THEN Norm(Tail(comps), new_comps)
    ELSE IF Head(comps) = <<".", ".">>
    THEN Norm(Tail(comps),
              SubSeq(new_comps, 1, Max(0, Len(new_comps) - 1)))
    ELSE Norm(Tail(comps), Append(new_comps, Head(comps)))

(* "/" + "/".join(comps) *)
RECURSIVE Rooted(_)
Rooted(comps) ==
    IF comps = <<>> THEN <<"/">>
    ELSE IF Len(comps) = 1 THEN <<"/">> \o comps[1]
    ELSE Rooted(SubSeq(comps, 1, Len(comps) - 1)) \o <<"/">> \o comps[Len(comps)]

(* os.path.abspath(p) for an absolute p *)
Abspath(p) == Rooted(Norm(Split(p, "/"), <<>>))

(* the directories os.makedirs(p) needs: p and the directories above it *)
Ancestors(p) ==
    LET comps == Norm(Split(p, "/"), <<>>)
    IN  {Rooted(SubSeq(comps, 1, n)) : n \in 1..Len(comps)}

(* "os.path.abspath(dirname).find(self.plcworkdir) != 0" is false *)
InWorkdir(path) ==
    Len(path) >= Len(plcworkdir) /\ SubSeq(path, 1, Len(plcworkdir)) = plcworkdir

(* xml_plcupload(filedata, filename); gz_ok: filedata is gzip data *)
xml_plcupload(filename, gz_ok) ==
    LET name == Slashes(filename)
        dirname == PathJoin(plcworkdir, Dirname(name))
        target == Abspath(PathJoin(plcworkdir, name))
    IN  IF ~InWorkdir(Abspath(dirname))
        THEN upl_ret' = <<"False", target>> /\ UNCHANGED <<fs_files, fs_dirs>>
        ELSE IF Ancestors(dirname) \cap fs_files # {}
        THEN upl_ret' = <<"raised", target>> /\ UNCHANGED <<fs_files, fs_dirs>>
        ELSE /\ fs_dirs' = fs_dirs \cup Ancestors(dirname)
             /\ IF target \in fs_dirs' \/ target = <<"/">>
                THEN upl_ret' = <<"False", target>> /\ UNCHANGED fs_files
                ELSE /\ fs_files' = fs_files \cup {target}
                     /\ upl_ret' = <<IF gz_ok THEN "True" ELSE "False", target>>

(* the file names of the clients *)
Filenames ==
    {<<"f">>, <<"e">>, <<"d">>, <<"d", "/", "f">>, <<"d", "/", "e">>,
     <<".", "/", "f">>,
     <<".", ".", "/", "f">>, <<"d", "/", ".", ".", "/", "f">>,
     <<".", ".", "/", "w", "2", "/", "f">>,
     <<".", ".", "\\", "w", "2", "\\", "f">>,
     <<"/", "w", "/", "f">>, <<"/", "w", "2", "/", "f">>,
     <<"/", "e", "/", "f">>}

UplInit ==
    /\ PlcNone
    /\ ConnNone
    /\ AclNone
    /\ RpcNone
    /\ MainNone
    /\ LateNone
    /\ stream = <<>>
    /\ fs_files = {}
    /\ fs_dirs = {plcworkdir}
    /\ upl_ret = <<>>

DoUpload ==
    /\ UNCHANGED notupl
    /\ \E filename \in Filenames, gz_ok \in BOOLEAN : xml_plcupload(filename, gz_ok)

UplNext == DoUpload

SpecUpload == UplInit /\ [][UplNext]_vars

----------------------------------------------------------------------------
(* The mainloop of the daemon: revpipyload.py *)

(* hardware-config documents: one whose first byte is 1 describes a BASE device,
   the byte after it is the address of its LED output *)
RscFiles == {configrsc, <<1, 1, 2>>, <<2>>}

(* helper.get_revpiled_address() *)
get_revpiled_address(configrsc_bytes) ==
    IF configrsc_bytes[1] = 1 THEN configrsc_bytes[2] ELSE -1

(* hashlib.md5(rsc_buff).digest(): 16 bytes, different for different documents *)
md5(rsc_buff) ==
    LET weight == Len(rsc_buff) * 16 + rsc_buff[1] * 4 + rsc_buff[Len(rsc_buff)]
    IN  [i \in 1..16 |-> (weight * i) % 256]

(* what the configuration file can say: the program is started with the daemon *)
Configs ==
    [autoreload : BOOLEAN, autostart : {TRUE}, plcprogram : {1, 2},
     plcprogram_watchdog : {0, 1}, reset_driver_action : 0..2]

(* "Konfiguration verarbeiten [DEFAULT]" *)
Configure(c, new) ==
    [autoreload |-> new.autoreload, autostart |-> new.autostart,
     plcprogram |-> new.plcprogram,
     plcprogram_watchdog |-> new.plcprogram_watchdog,
     reset_driver_action |-> new.reset_driver_action,
     revpi_led_address |-> c.revpi_led_address]

(* self.plc *)
PlcOf ==
    [pc |-> plc_pc, child |-> child, code |-> child_code, spawned |-> spawned,
     sigterm |-> sigterm, sigkill |-> sigkill, exitcode |-> exitcode,
     exit |-> plc_exit, autoreload |-> autoreload, zeroed |-> FALSE]

(* "self.plc = None" in __init__() *)
NonePlc ==
    [pc |-> "none", child |-> "none", code |-> 0, spawned |-> 0,
     sigterm |-> FALSE, sigkill |-> FALSE, exitcode |-> None, exit |-> FALSE,
     autoreload |-> FALSE, zeroed |-> FALSE]

(* self.plc is not None and self.plc.is_alive() *)
Alive(p) == p.pc = "loop"

(* RevPiPlc.stop() and join(): the child ends with code, the thread ends *)
StopPlc(p, code) ==
    LET zero(c) == IF c = 0 THEN zeroonexit ELSE zeroonerror
    IN  IF p.child = "alive"
        THEN [p EXCEPT !.pc = "done", !.exit = TRUE, !.sigterm = TRUE,
                       !.sigkill = (code = -9), !.child = "dead",
                       !.code = code, !.exitcode = <<code>>,
                       !.zeroed = zero(code)]
        ELSE IF p.child = "dead"
        THEN [p EXCEPT !.pc = "done", !.exit = TRUE, !.exitcode = <<p.code>>,
                       !.zeroed = zero(p.code)]
        ELSE [p EXCEPT !.pc = "done", !.exit = TRUE]

(* stop_plcprogram() *)
stop_plcprogram(p, code) == IF Alive(p) THEN StopPlc(p, code) ELSE p

(* _plcthread(): None without the program file, or without an LED address for
   the watchdog *)
plcthread(p, c, exists) ==
    IF ~exists \/ (c.revpi_led_address < 0 /\ 0 < c.plcprogram_watchdog)
    THEN [p EXCEPT !.pc = "none", !.child = "none", !.code = 0,
                   !.sigterm = FALSE, !.sigkill = FALSE, !.exitcode = None,
                   !.exit = FALSE, !.autoreload = FALSE]
    ELSE [p EXCEPT !.pc = "new", !.child = "none", !.code = 0,
                   !.sigterm = FALSE, !.sigkill = FALSE, !.exitcode = None,
                   !.exit = FALSE, !.autoreload = c.autoreload]

(* self.plc.start(), up to the first child *)
StartPlc(p) ==
    [p EXCEPT !.pc = "loop", !.child = "alive", !.spawned = @ + 1]

(* a daemon that keeps the digest it had *)
DigestKept(old, file_hash) == old

(* "picontrolserver.HASH_PICT = file_hash" *)
Digest(old, file_hash) == file_hash

(* check_pictory_changed() *)
check_pictory_changed(m, code) ==
    IF rsc.there = "missing"
    THEN [m EXCEPT !.pmtime = 0, !.changed = FALSE]
    ELSE IF m.pmtime = rsc.mtime
    THEN [m EXCEPT !.changed = FALSE]
    ELSE IF rsc.there = "locked"
    THEN [m EXCEPT !.pmtime = rsc.mtime, !.changed = FALSE]
    ELSE LET led == get_revpiled_address(rsc.data)
             file_hash == md5(rsc.data)
         IN  [m EXCEPT !.pmtime = rsc.mtime,
                       !.cfg.revpi_led_address = led,
                       !.plc = IF Alive(m.plc) /\ led < 0
                                  /\ m.cfg.plcprogram_watchdog > 0
                               THEN StopPlc(m.plc, code) ELSE m.plc,
                       !.hash = IF m.hash = file_hash THEN m.hash
                                ELSE Digest(m.hash, file_hash),
                       !.changed = (m.hash # file_hash)]

(* the daemon as the mainloop finds it *)
Me ==
    [cfg |-> cfg, pmtime |-> pictorymtime, hash |-> hash_pict, plc |-> PlcOf,
     changed |-> FALSE, restart |-> FALSE, reloads |-> 0]

(* a daemon that restarts the program for every change of its configuration *)
MustRestartAny(c, new, p) == p.pc = "none" \/ Configure(c, new) # c

(* _check_mustrestart_plcprogram() *)
MustRestart(c, new, p) ==
    \/ p.pc = "none"
    \/ c.plcprogram # new.plcprogram
    \/ ~Alive(p) /\ ~c.autostart /\ new.autostart

(* _loadconfig(): new is what the configuration file says, rp whether
   check_replace_ios_changed() finds the overlay file changed, exists whether
   the program file is there *)
loadconfig(m, new, rp, exists, code) ==
    LET restart_plcprogram == MustRestart(m.cfg, new, m.plc)
        m1 == [m EXCEPT !.cfg = Configure(m.cfg, new)]
        m2 == check_pictory_changed(m1, code)
        file_changed == m2.changed \/ rp
        built == plcthread(stop_plcprogram(m2.plc, code), m2.cfg, exists)
        started == IF built.pc # "none" /\ m2.cfg.autostart
                   THEN StartPlc(built) ELSE built
    IN  [m2 EXCEPT !.reloads = @ + 1,
                   !.changed = file_changed,
                   !.restart = restart_plcprogram \/ file_changed,
                   !.plc = IF restart_plcprogram \/ file_changed
                           THEN started
                           ELSE [m2.plc EXCEPT !.autoreload = m2.cfg.autoreload]]

(* the daemon takes the values the mainloop has worked out *)
SetMe(m) ==
    /\ cfg' = m.cfg
    /\ pictorymtime' = m.pmtime
    /\ hash_pict' = m.hash
    /\ plc_pc' = m.plc.pc
    /\ child' = m.plc.child
    /\ child_code' = m.plc.code
    /\ spawned' = m.plc.spawned
    /\ sigterm' = m.plc.sigterm
    /\ sigkill' = m.plc.sigkill
    /\ exitcode' = m.plc.exitcode
    /\ plc_exit' = m.plc.exit
    /\ autoreload' = m.plc.autoreload
    /\ image' = IF m.plc.zeroed THEN Zeroprocimg(image) ELSE image
    /\ UNCHANGED <<autoreloaddelay2, delaycounter, zeroonerror, zeroonexit,
                   stop_timeout, stop_pc, stop_count, waited>>

(* an event that counts its settings down *)
EvtCountDown(n) == n > 1

(* "self.evt_loadconfig.clear()" after n settings *)
EvtClear(n) == FALSE

(* the head of one iteration: "if self.evt_loadconfig.is_set(): self._loadconfig()".
   A change of the files makes _loadconfig() rebuild the PLC-Server, which
   closes its connections *)
MainReload(new, rp, exists, code) ==
    /\ main_pc = "top"
    /\ LET m == IF evt_loadconfig
                THEN loadconfig(Me, new, rp, exists, code) ELSE Me
       IN  /\ m.plc.spawned <= MaxSpawns
           /\ SetMe(m)
           /\ loop_ret' = [reloads |-> m.reloads, served |-> pending,
                           file_changed |-> m.changed,
                           alive |-> Alive(PlcOf),
                           autoreload_only |->
                               /\ evt_loadconfig
                               /\ new.autoreload # cfg.autoreload
                               /\ Configure(cfg, new) =
                                      [cfg EXCEPT !.autoreload = new.autoreload],
                           restart |-> m.restart]
           /\ dev_exit' = IF c_state = "open" /\ m.changed THEN TRUE
                          ELSE dev_exit
    /\ evt_loadconfig' = (evt_loadconfig /\ EvtClear(pending))
    /\ pending' = 0
    /\ main_pc' = "check"
    /\ UNCHANGED <<srv_watchdog, c_state, acl, deadtime, watchdog, ey_dict, dirty,
                   got_replace_ios, doerror, developermode, sent, notmain,
                   rsc, triggered, not_implemented>>

(* ResetDriverWatchdog.triggered: what a read of the property returns; the read
   clears _triggered *)
triggered_property == triggered

(* a mainloop that restarts the program whatever reset_driver_action says *)
RestartDueAnyAction(unwatched, alive, action, reset_driver_detected, file_changed) ==
    ~unwatched /\ alive /\ (reset_driver_detected \/ file_changed)

(* "Restart plc program after piCtory change": the condition *)
RestartDue(unwatched, alive, action, reset_driver_detected, file_changed) ==
    /\ ~unwatched
    /\ alive
    /\ \/ action = 2 /\ reset_driver_detected
       \/ action = 1 /\ file_changed

(* the rest of one iteration, up to the wait at its end: the file checks and
   the restart of the program.  self.plc.start() raises AttributeError when
   _plcthread() has returned None; the mainloop does not catch it *)
MainCheck(rp, exists, code) ==
    /\ main_pc = "check"
    /\ LET reset_driver_detected == triggered_property
           looks == reset_driver_detected \/ not_implemented
           m == IF looks THEN check_pictory_changed(Me, code) ELSE Me
           file_changed == m.changed \/ rp
           alive == Alive(m.plc)
           due == RestartDue(not_implemented, alive, m.cfg.reset_driver_action,
                             reset_driver_detected, file_changed)
           built == plcthread(stop_plcprogram(m.plc, code), m.cfg, exists)
       IN  /\ IF due
              THEN IF built.pc = "none"
                   THEN SetMe([m EXCEPT !.plc = built]) /\ main_pc' = "crashed"
                   ELSE /\ built.spawned < MaxSpawns
                        /\ SetMe([m EXCEPT !.plc = StartPlc(built)])
                        /\ main_pc' = "top"
              ELSE SetMe(m) /\ main_pc' = "top"
           /\ loop_ret' = [reloads |-> 0, served |-> 0,
                           file_changed |-> file_changed, alive |-> alive,
                           autoreload_only |-> FALSE, restart |-> due]
           /\ dev_exit' = IF c_state = "open"
                             /\ (m.changed \/ (rp /\ got_replace_ios))
                          THEN TRUE ELSE dev_exit
    /\ triggered' = FALSE
    /\ UNCHANGED <<srv_watchdog, c_state, acl, deadtime, watchdog, ey_dict, dirty,
                   got_replace_ios, doerror, developermode, sent, notmain,
                   rsc, evt_loadconfig, pending, not_implemented>>

(* what the mainloop alone changes, and the rest of the daemon *)
mainkept == <<connvars, plcvars, notmain, cfg, pictorymtime, hash_pict,
              loop_ret, main_pc>>

(* _sigloadconfig(), xml_reload() and the end of xml_setconfig():
   "self.evt_loadconfig.set()" *)
SetLoadconfig ==
    /\ main_pc # "crashed"
    /\ pending < MaxPending
    /\ evt_loadconfig' = TRUE
    /\ pending' = pending + 1
    /\ UNCHANGED <<mainkept, rsc, triggered, not_implemented>>

(* somebody writes the hardware-config file *)
WriteRsc(data) ==
    /\ rsc.mtime < MaxMtime
    /\ rsc' = [mtime |-> rsc.mtime + 1, data |-> data, there |-> "ok"]
    /\ UNCHANGED <<mainkept, evt_loadconfig, pending, triggered,
                   not_implemented>>

(* the hardware-config file is removed, or cannot be read *)
LoseRsc(there) ==
    /\ rsc.there = "ok"
    /\ rsc' = [rsc EXCEPT !.there = there]
    /\ UNCHANGED <<mainkept, evt_loadconfig, pending, triggered,
                   not_implemented>>

(* ResetDriverWatchdog.run(): the ioctl returns, the driver was reset *)
ResetDriver ==
    /\ ~not_implemented
    /\ ~triggered
    /\ triggered' = TRUE
    /\ UNCHANGED <<mainkept, evt_loadconfig, pending, rsc, not_implemented>>

(* ResetDriverWatchdog.run(): the ioctl is not implemented *)
WatcherFails ==
    /\ ~not_implemented
    /\ not_implemented' = TRUE
    /\ UNCHANGED <<mainkept, evt_loadconfig, pending, rsc, triggered>>

(* RevPiSlave.run(): the acceptor takes a new connection *)
Accept(level) ==
    /\ c_state # "open"
    /\ c_state' = "open"
    /\ acl' = level
    /\ deadtime' = None
    /\ watchdog' = srv_watchdog
    /\ ey_dict' = <<>>
    /\ dirty' = TRUE
    /\ dev_exit' = FALSE
    /\ got_replace_ios' = FALSE
    /\ doerror' = FALSE
    /\ sent' = <<>>
    /\ UNCHANGED <<image, srv_watchdog, developermode, plcvars, newvars>>

(* the daemon after RevPiPyLoad.__init__() and the head of start(): the first
   _loadconfig() has read the hardware-config file and built the supervisor *)
DaemonInit(configs, documents) ==
    /\ NotMainNone
    /\ ConnNone
    /\ \E c \in configs, data \in documents :
        LET first == [Configure(DefaultConfig, c) EXCEPT
                         !.revpi_led_address = get_revpiled_address(data)]
            built == plcthread(NonePlc, first, TRUE)
            p == IF built.pc # "none" /\ first.autostart
                 THEN StartPlc(built) ELSE built
        IN  /\ cfg = first
            /\ rsc = [mtime |-> 1, data |-> data, there |-> "ok"]
            /\ hash_pict = md5(data)
            /\ plc_pc = p.pc
            /\ child = p.child
            /\ spawned = p.spawned
            /\ autoreload = p.autoreload
    /\ child_code = 0
    /\ sigterm = FALSE
    /\ sigkill = FALSE
    /\ exitcode = None
    /\ plc_exit = FALSE
    /\ autoreloaddelay2 = 0
    /\ delaycounter = 0
    /\ zeroonerror = TRUE
    /\ zeroonexit = TRUE
    /\ stop_timeout = 1
    /\ stop_pc = "idle"
    /\ stop_count = 0
    /\ waited = 0
    /\ evt_loadconfig = FALSE
    /\ pending = 0
    /\ pictorymtime = 1
    /\ triggered = FALSE
    /\ not_implemented = FALSE
    /\ loop_ret = NoLoop
    /\ main_pc = "top"

MainInit == DaemonInit(Configs, RscFiles)

(* a daemon that leaves its control program alone *)
HashInit ==
    DaemonInit({c \in Configs : /\ ~c.autoreload
                                /\ c.plcprogram = 1
                                /\ c.plcprogram_watchdog = 0
                                /\ c.reset_driver_action = 0},
               {configrsc})

(* what the configuration file says while nobody has edited it *)
ConfigFile ==
    [autoreload |-> cfg.autoreload, autostart |-> cfg.autostart,
     plcprogram |-> cfg.plcprogram,
     plcprogram_watchdog |-> cfg.plcprogram_watchdog,
     reset_driver_action |-> cfg.reset_driver_action]

(* how a child that is stopped ends: by SIGTERM *)
StopCodes == {-15}

(* the control program ends by itself *)
DoChildEnd == \E code \in {1} : ChildExit(code)

(* the configuration file was edited, or not, before the reload *)
DoMainReload ==
    IF evt_loadconfig
    THEN \E new \in Configs, rp \in BOOLEAN, exists \in BOOLEAN,
            code \in StopCodes :
            MainReload(new, rp, exists, code)
    ELSE \E code \in StopCodes : MainReload(ConfigFile, FALSE, TRUE, code)

(* the configuration file is as it was at the last reload *)
DoMainReloadSame ==
    \E rp \in BOOLEAN, code \in StopCodes :
        MainReload(ConfigFile, rp, TRUE, code)

DoMainCheck ==
    \E rp \in BOOLEAN, exists \in BOOLEAN, code \in StopCodes :
        MainCheck(rp, exists, code)

DoWriteRsc == \E data \in RscFiles : WriteRsc(data)

DoLoseRsc == \E there \in {"missing", "locked"} : LoseRsc(there)

DoAccept == \E level \in {0, 1} : Accept(level)

(* the mainloop, the reset-driver watcher and the supervisor, with a
   configuration file that nobody edits *)
MainNext ==
    \/ DoMainReloadSame \/ DoMainCheck \/ SetLoadconfig \/ DoWriteRsc
    \/ ResetDriver \/ WatcherFails \/ DoChildEnd \/ PlcLoop

SpecMain == MainInit /\ [][MainNext]_vars

(* the mainloop with a configuration file that is edited *)
ReloadNext ==
    \/ DoMainReload \/ DoMainCheck \/ SetLoadconfig \/ DoWriteRsc
    \/ ResetDriver

SpecReload == MainInit /\ [][ReloadNext]_vars

(* the mainloop, the hardware-config file and a client of the PLC-Server *)
HashNext ==
    \/ DoMainReloadSame \/ DoMainCheck \/ SetLoadconfig \/ DoWriteRsc
    \/ DoLoseRsc \/ ResetDriver \/ WatcherFails \/ DoAccept \/ DoPH \/ DoLeave

SpecHash == HashInit /\ [][HashNext]_vars

----------------------------------------------------------------------------
(* The soft watchdog of the control program: SoftwareWatchdog of watchdogs.py.
   Time is counted in seconds since the sampling task last set tmr. *)

MaxWdTimeout == 2   \* plcprogram_watchdog is 0..MaxWdTimeout seconds

(* all but the soft watchdog *)
notwd == <<connvars, plcvars, framevars, aclvars, rpcvars, uplvars, mainvars, srvvars,
          stopvars, morevars>>

(* __th.is_alive() *)
WdAlive == wd_pc \in {"delay", "sample", "rest"}

WdStartableAfterTrigger(trig, stopped, alive) == ~(stopped \/ alive)

(* timeout.setter: whether a value above 0 starts a sampling task *)
WdStartable(trig, stopped, alive) == ~(trig \/ stopped \/ alive)

(* __th_run: time() - tmr >= self._timeout *)
WdTimedOut(elapsed, timeout) == elapsed >= timeout

(* timeout.setter with a value above 0 *)
WdSetTimeout(value) ==
    /\ wd_join = "none"
    /\ value > 0
    /\ wd_timeout' = value
    /\ IF WdStartable(wd_triggered, wd_stopped, WdAlive)
       THEN wd_exit' = FALSE /\ wd_pc' = "delay"
       ELSE UNCHANGED <<wd_exit, wd_pc>>
    /\ UNCHANGED <<notwd, wd_stopped, wd_triggered, wd_process, wd_sigkill, wd_mrk,
                   wd_seen, wd_elapsed, wd_bit, wd_frozen, wd_join>>

(* timeout.setter with value 0, as far as the join *)
WdSetTimeoutZero ==
    /\ wd_join = "none"
    /\ wd_exit' = TRUE
    /\ wd_join' = "timeout"
    /\ UNCHANGED <<notwd, wd_pc, wd_stopped, wd_timeout, wd_triggered, wd_process,
                   wd_sigkill, wd_mrk, wd_seen, wd_elapsed, wd_bit, wd_frozen>>

(* stop(), as far as the join *)
WdStop ==
    /\ wd_join = "none"
    /\ wd_stopped' = TRUE
    /\ wd_exit' = TRUE
    /\ wd_join' = "stop"
    /\ UNCHANGED <<notwd, wd_pc, wd_timeout, wd_triggered, wd_process, wd_sigkill,
                   wd_mrk, wd_seen, wd_elapsed, wd_bit, wd_frozen>>

(* the join of stop() or of timeout.setter returns, or was not needed *)
WdJoined ==
    /\ wd_join # "none"
    /\ ~WdAlive
    /\ wd_timeout' = IF wd_join = "timeout" THEN 0 ELSE wd_timeout
    /\ wd_join' = "none"
    /\ UNCHANGED <<notwd, wd_pc, wd_exit, wd_stopped, wd_triggered, wd_process,
                   wd_sigkill, wd_mrk, wd_seen, wd_elapsed, wd_bit, wd_frozen>>

(* reset(): the flags are cleared and the timeout is set to itself *)
WdReset ==
    /\ wd_join = "none"
    /\ wd_stopped' = FALSE
    /\ wd_triggered' = FALSE
    /\ IF wd_timeout = 0
       THEN wd_exit' = TRUE /\ wd_join' = "timeout" /\ UNCHANGED wd_pc
       ELSE /\ wd_exit' = FALSE
            /\ wd_pc' = IF WdStartable(FALSE, FALSE, WdAlive) THEN "delay" ELSE wd_pc
            /\ UNCHANGED wd_join
    /\ UNCHANGED <<notwd, wd_timeout, wd_process, wd_sigkill, wd_mrk, wd_seen,
                   wd_elapsed, wd_bit, wd_frozen>>

(* kill_process.setter *)
WdSetProcess(value) ==
    /\ wd_join = "none"
    /\ wd_process' = value
    /\ wd_sigkill' = FALSE
    /\ UNCHANGED <<notwd, wd_pc, wd_exit, wd_stopped, wd_timeout, wd_triggered, wd_mrk,
                   wd_seen, wd_elapsed, wd_bit, wd_frozen, wd_join>>

(* __th_run: the startup delay of two seconds is over or was cut short; mrk is
   the request of the ioctl, whose value byte is 0 *)
WdDelayOver ==
    /\ wd_pc = "delay"
    /\ IF wd_exit
       THEN wd_pc' = "done" /\ UNCHANGED <<wd_mrk, wd_elapsed>>
       ELSE wd_pc' = "sample" /\ wd_mrk' = 0 /\ wd_elapsed' = 0
    /\ UNCHANGED <<notwd, wd_exit, wd_stopped, wd_timeout, wd_triggered, wd_process,
                   wd_sigkill, wd_seen, wd_bit, wd_frozen, wd_join>>

(* __th_run: one pass of the sampling loop *)
WdSample(readable) ==
    /\ wd_pc = "sample"
    /\ IF wd_exit
       THEN /\ wd_pc' = "done"
            /\ UNCHANGED <<wd_seen, wd_triggered, wd_sigkill>>
       ELSE IF readable /\ wd_bit # wd_mrk
       THEN /\ wd_pc' = "rest"
            /\ wd_seen' = wd_bit
            /\ UNCHANGED <<wd_triggered, wd_sigkill>>
       ELSE IF WdTimedOut(wd_elapsed, wd_timeout)
       THEN /\ wd_triggered' = TRUE
            /\ wd_sigkill' = (wd_sigkill \/ wd_process = "set")
            /\ wd_pc' = "done"
            /\ wd_seen' = IF readable THEN wd_bit ELSE wd_seen
       ELSE /\ wd_seen' = IF readable THEN wd_bit ELSE wd_seen
            /\ UNCHANGED <<wd_pc, wd_triggered, wd_sigkill>>
    /\ UNCHANGED <<notwd, wd_exit, wd_stopped, wd_timeout, wd_process, wd_mrk,
                   wd_elapsed, wd_bit, wd_frozen, wd_join>>

(* __th_run: the wait for the rest of the timeout after a toggle returns *)
WdRestOver ==
    /\ wd_pc = "rest"
    /\ wd_exit \/ wd_elapsed >= wd_timeout
    /\ wd_mrk' = wd_seen
    /\ wd_elapsed' = 0
    /\ wd_pc' = "sample"
    /\ UNCHANGED <<notwd, wd_exit, wd_stopped, wd_timeout, wd_triggered, wd_process,
                   wd_sigkill, wd_seen, wd_bit, wd_frozen, wd_join>>

(* a second passes *)
WdTick ==
    /\ wd_pc \in {"sample", "rest"}
    /\ wd_elapsed < MaxWdTimeout
    /\ wd_elapsed' = wd_elapsed + 1
    /\ UNCHANGED <<notwd, wd_pc, wd_exit, wd_stopped, wd_timeout, wd_triggered,
                   wd_process, wd_sigkill, wd_mrk, wd_seen, wd_bit, wd_frozen, wd_join>>

(* the control program toggles the bit *)
WdToggle ==
    /\ ~wd_frozen
    /\ wd_bit' = 1 - wd_bit
    /\ UNCHANGED <<notwd, wd_pc, wd_exit, wd_stopped, wd_timeout, wd_triggered,
                   wd_process, wd_sigkill, wd_mrk, wd_seen, wd_elapsed, wd_frozen,
                   wd_join>>

(* the control program hangs *)
WdFreeze ==
    /\ ~wd_frozen
    /\ wd_frozen' = TRUE
    /\ UNCHANGED <<notwd, wd_pc, wd_exit, wd_stopped, wd_timeout, wd_triggered,
                   wd_process, wd_sigkill, wd_mrk, wd_seen, wd_elapsed, wd_bit, wd_join>>

(* SoftwareWatchdog(address, timeout, kill_process) *)
WdInit ==
    /\ PlcNone
    /\ ConnNone
    /\ stream = <<>>
    /\ AclNone
    /\ RpcNone
    /\ UplNone
    /\ MainNone
    /\ SrvNone
    /\ StopNone
    /\ MoreNone
    /\ wd_timeout \in 0..MaxWdTimeout
    /\ wd_process \in {"none", "set"}
    /\ wd_pc \in {"none", "delay"}
    /\ wd_pc = "delay" <=> wd_timeout > 0
    /\ wd_exit \in BOOLEAN
    /\ wd_exit <=> wd_timeout = 0
    /\ wd_stopped = FALSE
    /\ wd_triggered = FALSE
    /\ wd_sigkill = FALSE
    /\ wd_mrk = 0
    /\ wd_seen = 0
    /\ wd_elapsed = 0
    /\ wd_bit \in {0, 1}
    /\ wd_frozen = FALSE
    /\ wd_join = "none"

DoWdSetTimeout == \E value \in 1..MaxWdTimeout : WdSetTimeout(value)

DoWdSetProcess == \E value \in {"none", "set"} : WdSetProcess(value)

DoWdSample == \E readable \in BOOLEAN : WdSample(readable)

(* the sampling task *)
WdThread == WdDelayOver \/ DoWdSample \/ WdRestOver

WdNext ==
    \/ DoWdSetTimeout \/ WdSetTimeoutZero \/ WdStop \/ WdJoined \/ WdReset
    \/ DoWdSetProcess \/ WdDelayOver \/ DoWdSample \/ WdRestOver \/ WdTick \/ WdToggle
    \/ WdFreeze

(* the sampling task is a thread that runs, and time passes *)
SpecWatchdog ==
    WdInit /\ [][WdNext]_vars /\ WF_vars(WdThread) /\ WF_vars(WdTick)

----------------------------------------------------------------------------
(* The exit code the daemon reports for the control program *)

(* xml_plcexitcode(): plc_none is "self.plc is None", code is plc.exitcode *)
xml_plcexitcode(plc_none, code, alive) ==
    IF plc_none THEN -2
    ELSE IF code = None /\ alive THEN -1
    ELSE IF code = None THEN -3 ELSE code[1]

(* a client that fetches the documents and the hash, with a deadline *)
DocNext == DoPI \/ DoPH \/ DoRP \/ DoCF \/ DoSetWatchdog

SpecDoc == ConnInit /\ [][DocNext]_vars

----------------------------------------------------------------------------
(* A reload whose configuration file holds a value _loadconfig() raises on *)

(* where _loadconfig() raises ValueError: "number" is getint() on a value that
   is no number, in the restart checks before anything is set; "workdir" is a
   working directory that cannot be accessed, after the values are set and the
   files are checked; "port" is a port out of range, in _plcserver() after the
   control program was configured *)
InvalidKinds == {"number", "workdir", "port"}

(* _loadconfig() with such a file: nothing catches the exception, neither in
   start() nor in main(), and evt_loadconfig is not cleared *)
MainReloadInvalid(why, new, rp, exists, code) ==
    /\ main_pc = "top"
    /\ evt_loadconfig
    /\ LET set == [Me EXCEPT !.cfg = Configure(Me.cfg, new)]
           m == CASE why = "number" -> Me
                  [] why = "workdir" -> check_pictory_changed(set, code)
                  [] why = "port" -> loadconfig(Me, new, rp, exists, code)
       IN  /\ m.plc.spawned <= MaxSpawns
           /\ SetMe(m)
           /\ dev_exit' = IF c_state = "open" /\ why = "port" THEN TRUE
                          ELSE dev_exit
    /\ main_pc' = "crashed"
    /\ UNCHANGED <<srv_watchdog, c_state, acl, deadtime, watchdog, ey_dict, dirty,
                   got_replace_ios, doerror, developermode, sent, notmain,
                   rsc, triggered, not_implemented, evt_loadconfig, pending,
                   loop_ret>>

DoMainReloadInvalid ==
    \E why \in InvalidKinds, rp \in BOOLEAN, exists \in BOOLEAN,
       code \in StopCodes :
        MainReloadInvalid(why, ConfigFile, rp, exists, code)

(* the mainloop with a configuration file that is edited badly *)
InvalidNext ==
    \/ DoMainReloadInvalid \/ DoMainReloadSame \/ DoMainCheck \/ SetLoadconfig
    \/ DoWriteRsc \/ ResetDriver \/ DoChildEnd \/ PlcLoop

SpecInvalid == HashInit /\ [][InvalidNext]_vars

----------------------------------------------------------------------------
(* The PLC-Server with several connections: the acceptor thread of RevPiSlave,
   its workers as far as the server looks at them, and the calls the mainloop
   makes on the server.  The ACL is taken by what get_acllevel() returns. *)

MaxConns == 2       \* connections that are ever accepted
MaxPeers == 2       \* peer addresses

Conns == 1..MaxConns
Peers == 1..MaxPeers
(* the levels of the PLC-Server's ACL, and -1 for a peer it does not name *)
AclLevels == [Peers -> -1..1]

(* all but the PLC-Server *)
notsrv == <<connvars, plcvars, framevars, aclvars, rpcvars, uplvars, mainvars, wdvars,
           stopvars, morevars>>

(* no worker: st is "none", "live" (thread runs) or "closed" (run() returned);
   rp remembers that the client has sent RP *)
NoDev == [st |-> "none", ip |-> 1, acl |-> 0, got |-> FALSE, rp |-> FALSE,
          exit |-> FALSE]

(* RevPiSlaveDev.stop() on a worker *)
StopDev(d) == [d EXCEPT !.exit = TRUE]

(* RevPiSlave.run(): accept() and the look at the ACL; a peer of level -1 is
   turned away *)
AcceptLookup(c, ip) ==
    /\ th_plcserver.st = "alive"
    /\ acc = <<>>
    /\ dev[c].st = "none"
    /\ LET aclstatus == ip_level[ip]
       IN  acc' = IF aclstatus = -1 THEN <<>> ELSE <<c, ip, aclstatus>>
    /\ UNCHANGED <<notsrv, ip_level, dev, th_dev, checked, th_plcserver, srv_cfg>>

(* RevPiSlave.run(): the worker is made and started, appended to _th_dev, and
   the list is freed of dead workers *)
AcceptStart ==
    /\ acc # <<>>
    /\ dev' = [dev EXCEPT ![acc[1]] =
                   [NoDev EXCEPT !.st = "live", !.ip = acc[2], !.acl = acc[3]]]
    /\ th_dev' = {d \in th_dev \cup {acc[1]} : dev'[d].st = "live"}
    /\ acc' = <<>>
    /\ UNCHANGED <<notsrv, ip_level, checked, th_plcserver, srv_cfg>>

(* the worker leaves run(): its client has gone or stop() was called *)
DevLeaves(c) ==
    /\ dev[c].st = "live"
    /\ dev' = [dev EXCEPT ![c].st = "closed"]
    /\ UNCHANGED <<notsrv, ip_level, th_dev, acc, checked, th_plcserver, srv_cfg>>

(* RevPiSlaveDev.run(): RH, the hash of the overlay is sent *)
DevRH(c) ==
    /\ dev[c].st = "live"
    /\ ~dev[c].exit
    /\ dev' = [dev EXCEPT ![c].got = TRUE]
    /\ UNCHANGED <<notsrv, ip_level, th_dev, acc, checked, th_plcserver, srv_cfg>>

(* RevPiSlaveDev.run(): RP, the overlay is sent *)
DevRP(c) ==
    /\ dev[c].st = "live"
    /\ ~dev[c].exit
    /\ dev' = [dev EXCEPT ![c].rp = TRUE]
    /\ UNCHANGED <<notsrv, ip_level, th_dev, acc, checked, th_plcserver, srv_cfg>>

(* loadaclfile() of the PLC-Server's ACL with a file that says something new *)
LoadAcl(levels) ==
    /\ levels # ip_level
    /\ ip_level' = levels
    /\ checked' = FALSE
    /\ UNCHANGED <<notsrv, dev, th_dev, acc, th_plcserver, srv_cfg>>

(* check_connectedacl() on the workers of the list *)
Checked(d) ==
    LET level == ip_level[d.ip]
    IN  IF level < 0 THEN StopDev(d) ELSE [d EXCEPT !.acl = level]

check_connectedacl ==
    /\ th_plcserver.st # "none"
    /\ dev' = [c \in Conns |-> IF c \in th_dev THEN Checked(dev[c]) ELSE dev[c]]
    /\ checked' = TRUE
    /\ UNCHANGED <<notsrv, ip_level, th_dev, acc, th_plcserver, srv_cfg>>

(* a PLC-Server that is running, with an ACL *)
SrvInit ==
    /\ PlcNone
    /\ ConnNone
    /\ stream = <<>>
    /\ AclNone
    /\ RpcNone
    /\ UplNone
    /\ MainNone
    /\ WdNone
    /\ StopNone
    /\ MoreNone
    /\ ip_level \in AclLevels
    /\ dev = [c \in Conns |-> NoDev]
    /\ th_dev = {}
    /\ acc = <<>>
    /\ checked = TRUE
    /\ th_plcserver = [gen |-> 1, st |-> "alive"]
    /\ srv_cfg = [plcserver |-> TRUE, bindip |-> 1, port |-> 1]

DoAcceptLookup == \E c \in Conns, ip \in Peers : AcceptLookup(c, ip)

DoDevLeaves == \E c \in Conns : DevLeaves(c)

DoDevRH == \E c \in Conns : DevRH(c)

DoDevRP == \E c \in Conns : DevRP(c)

DoLoadAcl == \E levels \in AclLevels : LoadAcl(levels)

(* the acceptor, its workers and a mainloop that loads ACLs and checks *)
SrvAclNext ==
    \/ DoAcceptLookup \/ AcceptStart \/ DoDevLeaves \/ DoLoadAcl
    \/ check_connectedacl

SpecSrvAcl == SrvInit /\ [][SrvAclNext]_vars

(* disconnect_replace_ios() *)
disconnect_replace_ios ==
    /\ th_plcserver.st # "none"
    /\ dev' = [c \in Conns |->
                  IF c \in th_dev /\ dev[c].got THEN StopDev(dev[c]) ELSE dev[c]]
    /\ UNCHANGED <<notsrv, ip_level, th_dev, acc, checked, th_plcserver, srv_cfg>>

(* the acceptor, clients that ask for the overlay and a mainloop that finds the
   overlay changed *)
SrvOverlayNext ==
    \/ DoAcceptLookup \/ AcceptStart \/ DoDevLeaves \/ DoDevRH \/ DoDevRP
    \/ disconnect_replace_ios

SpecSrvOverlay == SrvInit /\ [][SrvOverlayNext]_vars

(* -------------------------------------------------------------------------- *)
(* The PLC-Server part of a reload (RevPiPyLoad._loadconfig)                    *)
(* -------------------------------------------------------------------------- *)

MaxGen == 3         \* acceptor threads that are ever made

(* the values of a [PLCSERVER] section; without the section the fallbacks *)
SrvConfs == [plcserver : BOOLEAN, bindip : 1..2, port : 1..2]
SrvFallback == [plcserver |-> FALSE, bindip |-> 1, port |-> 1]

(* a reload that builds a new acceptor at every reload *)
MustRestartAnyReload(th, section, old, new) == TRUE

(* _check_mustrestart_plcserver(): old is what the daemon holds, new is what
   the file says *)
check_mustrestart_plcserver(th, section, old, new) ==
    IF th.st = "none" THEN TRUE
    ELSE IF ~section THEN TRUE
    ELSE \/ old.plcserver # new.plcserver
         \/ old.bindip # new.bindip
         \/ old.port # new.port

(* RevPiSlave.stop() and the end of run(): every worker of the list is stopped
   and joined, one that was being accepted is started and stopped as well *)
StopWorkers(d, accepted) ==
    [c \in Conns |->
        IF d[c].st = "live" THEN [d[c] EXCEPT !.st = "closed", !.exit = TRUE]
        ELSE IF accepted # <<>> /\ c = accepted[1]
             THEN [NoDev EXCEPT !.st = "closed", !.ip = accepted[2],
                                !.acl = accepted[3], !.exit = TRUE]
             ELSE d[c]]

(* _loadconfig(): file_changed says that the hardware configuration or the
   overlay file is found changed, levels is what the ACL file says *)
ServerReload(section, new, file_changed, levels) ==
    LET conf == IF section THEN new ELSE SrvFallback
        restart_plcserver ==
            \/ check_mustrestart_plcserver(th_plcserver, section, srv_cfg, conf)
            \/ file_changed
        loaded == IF conf.plcserver THEN levels ELSE ip_level
        stops == (~conf.plcserver \/ restart_plcserver)
                 /\ th_plcserver.st = "alive"
        dev1 == IF stops THEN StopWorkers(dev, acc) ELSE dev
        th1 == IF restart_plcserver
               THEN IF conf.plcserver
                    THEN [gen |-> th_plcserver.gen + 1, st |-> "alive"]
                    ELSE [gen |-> th_plcserver.gen, st |-> "none"]
               ELSE IF stops THEN [th_plcserver EXCEPT !.st = "stopped"]
               ELSE th_plcserver
        list1 == IF restart_plcserver THEN {} ELSE th_dev
        CheckedBy(d) == IF loaded[d.ip] < 0 THEN StopDev(d)
                        ELSE [d EXCEPT !.acl = loaded[d.ip]]
    IN  /\ restart_plcserver /\ conf.plcserver => th_plcserver.gen < MaxGen
        /\ srv_cfg' = conf
        /\ ip_level' = loaded
        /\ th_plcserver' = th1
        /\ th_dev' = list1
        /\ acc' = IF stops THEN <<>> ELSE acc
        /\ dev' = IF th1.st # "none"
                  THEN [c \in Conns |->
                           IF c \in list1 THEN CheckedBy(dev1[c]) ELSE dev1[c]]
                  ELSE dev1
        /\ checked' = TRUE
        /\ UNCHANGED notsrv

(* what an ACL file of a reload says: a peer is named with level 1 or not *)
ReloadLevels == [Peers -> {-1, 1}]

DoServerReload ==
    \E section \in BOOLEAN, new \in SrvConfs, file_changed \in BOOLEAN,
       levels \in ReloadLevels :
        /\ section \/ new = SrvFallback
        /\ ServerReload(section, new, file_changed, levels)

(* the acceptor, its workers and a mainloop that reloads *)
SrvReloadNext == DoAcceptLookup \/ AcceptStart \/ DoDevLeaves \/ DoServerReload

SpecSrvReload == SrvInit /\ [][SrvReloadNext]_vars

(* -------------------------------------------------------------------------- *)
(* stop() of the connection worker, the XML-RPC server and the supervisor      *)
(* -------------------------------------------------------------------------- *)

(* all but the connection and what the stop() calls work on *)
notstop == <<framevars, aclvars, rpcvars, uplvars, mainvars, wdvars, srvvars,
            morevars>>

(* socket.shutdown(SHUT_RDWR): a socket that is not connected any more
   raises OSError (ENOTCONN) *)
ShutdownRaises(s) == s = "gone"

(* RevPiSlaveDev.stop() *)
DevStopCall ==
    /\ c_state # "none"
    /\ dev_exit' = TRUE
    /\ IF so = "none" THEN so' = so /\ raised' = "none"
       ELSE IF ShutdownRaises(so) THEN so' = so /\ raised' = "OSError"
       ELSE so' = "shut" /\ raised' = "none"
    /\ UNCHANGED <<image, srv_watchdog, c_state, acl, deadtime, watchdog,
                   ey_dict, dirty, got_replace_ios, doerror, developermode,
                   sent, plcvars, notstop, fut, plw>>

(* the client resets the connection, or closes it after the shutdown *)
PeerGone ==
    /\ so \in {"conn", "shut"}
    /\ so' = "gone"
    /\ UNCHANGED <<connvars, plcvars, notstop, fut, plw, raised>>

(* RevPiSlaveDev.run() leaves its loop and closes: _devcon = None *)
WorkerEnds ==
    /\ dev_exit \/ so \in {"shut", "gone"}
    /\ Leave(IF dev_exit THEN "exit" ELSE "recv")
    /\ so' = "none"
    /\ UNCHANGED <<plcvars, notstop, fut, plw, raised>>

(* SaveXMLRPCServer.start() *)
XStart ==
    /\ fut = "none"
    /\ fut' = "running"
    /\ UNCHANGED <<connvars, plcvars, notstop, so, plw, raised>>

(* SaveXMLRPCServer.stop() *)
XStopCall ==
    /\ IF fut = "none" THEN fut' = fut /\ raised' = "RuntimeError"
       ELSE fut' = "done" /\ raised' = "none"
    /\ UNCHANGED <<connvars, plcvars, notstop, so, plw>>

(* RevPiPlc.stop() without a child: the log pipe is stopped and joined, and
   Thread.join() of a thread that was never started raises RuntimeError *)
PlcStopCall ==
    /\ child = "none"
    /\ plc_pc = "new"
    /\ plc_exit' = TRUE
    /\ IF plw = "none" THEN plw' = plw /\ raised' = "none"
       ELSE IF plw = "new" THEN plw' = plw /\ raised' = "RuntimeError"
       ELSE plw' = "done" /\ raised' = "none"
    /\ UNCHANGED <<connvars, notstop, so, fut, plc_pc, child, child_code,
                   spawned, sigterm, sigkill, exitcode, autoreload,
                   autoreloaddelay2, delaycounter, zeroonerror, zeroonexit,
                   stop_timeout, stop_pc, stop_count, waited>>

(* a connection that is served, an XML-RPC server and a supervisor that were
   made and not started; plw is None without plclog *)
StopInit ==
    /\ image = ZeroImage
    /\ srv_watchdog = TRUE
    /\ developermode = FALSE
    /\ c_state = "open"
    /\ acl \in {0, 1}
    /\ deadtime = None
    /\ watchdog = TRUE
    /\ ey_dict = <<>>
    /\ dirty = TRUE
    /\ dev_exit = FALSE
    /\ got_replace_ios = FALSE
    /\ doerror = FALSE
    /\ sent = <<>>
    /\ plc_pc = "new"
    /\ child = "none"
    /\ child_code = 0
    /\ spawned = 0
    /\ sigterm = FALSE
    /\ sigkill = FALSE
    /\ exitcode = None
    /\ plc_exit = FALSE
    /\ autoreload = FALSE
    /\ autoreloaddelay2 = 0
    /\ delaycounter = 0
    /\ zeroonerror \in BOOLEAN
    /\ zeroonexit \in BOOLEAN
    /\ stop_timeout = 1
    /\ stop_pc = "idle"
    /\ stop_count = 0
    /\ waited = 0
    /\ stream = <<>>
    /\ AclNone
    /\ RpcNone
    /\ UplNone
    /\ MainNone
    /\ WdNone
    /\ SrvNone
    /\ MoreNone
    /\ so = "conn"
    /\ fut = "none"
    /\ plw \in {"none", "new"}
    /\ raised = "none"

StopNext ==
    \/ DevStopCall \/ PeerGone \/ WorkerEnds
    \/ XStart \/ XStopCall \/ PlcStopCall

SpecStop == StopInit /\ [][StopNext]_vars

(* -------------------------------------------------------------------------- *)
(* The log pipe (logsystem.PipeLogwriter)                                       *)
(* -------------------------------------------------------------------------- *)

MaxLines == 3       \* lines the child writes
MaxPipe == 2        \* lines the pipe holds before a write blocks
MaxBanner == 1      \* lines that logline() writes

(* all but the log pipe *)
notpipe == <<connvars, plcvars, framevars, aclvars, rpcvars, uplvars, mainvars,
             wdvars, srvvars, stopvars, racevars, lastvars>>

(* a line that logline() writes *)
Banner == -1
(* the newline that stop() writes *)
Newline == 0

(* a write to a pipe that holds what it can hold blocks *)
PipeFull(pipe) == Len(pipe) >= MaxPipe

(* self._fh.write(line): a closed file raises ValueError and the line is gone *)
FileWrite(file, fh, line) == IF fh = "open" THEN Append(file, line) ELSE file

(* the condition of the loop of run(): "while not self._exit.is_set()" *)
LoopEnds(exit, pipe, buf) == exit

(* the child writes a line to its stdout; it is stopped before the pipe is *)
LpChildLine ==
    /\ lp_stop = "idle"
    /\ lp_pc # "done"
    /\ lp_next <= MaxLines
    /\ ~PipeFull(lp_pipe)
    /\ lp_pipe' = Append(lp_pipe, lp_next)
    /\ lp_next' = lp_next + 1
    /\ UNCHANGED <<notpipe, lp_buf, lp_line, lp_file, lp_fh, lp_lock, lp_pc,
                   lp_stop, lp_exit>>

(* run(): the loop condition; after the loop everything is closed *)
LpCheck ==
    /\ lp_pc = "check"
    /\ IF LoopEnds(lp_exit, lp_pipe, lp_buf)
       THEN lp_pc' = "done" /\ lp_fh' = "closed"
       ELSE lp_pc' = "readline" /\ lp_fh' = lp_fh
    /\ UNCHANGED <<notpipe, lp_pipe, lp_buf, lp_line, lp_file, lp_lock, lp_stop,
                   lp_exit, lp_next>>

(* run(): fhread.readline(); an empty buffer is filled with the first k lines
   of the pipe, an empty pipe blocks *)
LpReadline(k) ==
    /\ lp_pc = "readline"
    /\ IF lp_buf # <<>>
       THEN /\ k = 1
            /\ lp_line' = <<Head(lp_buf)>>
            /\ lp_buf' = Tail(lp_buf)
            /\ lp_pipe' = lp_pipe
       ELSE /\ k \in 1..Len(lp_pipe)
            /\ lp_line' = <<Head(lp_pipe)>>
            /\ lp_buf' = SubSeq(lp_pipe, 2, k)
            /\ lp_pipe' = SubSeq(lp_pipe, k + 1, Len(lp_pipe))
    /\ lp_pc' = "acquire"
    /\ UNCHANGED <<notpipe, lp_file, lp_fh, lp_lock, lp_stop, lp_exit, lp_next>>

(* run(): the lock is taken, the line is written, the lock is released *)
LpWrite ==
    /\ lp_pc = "acquire"
    /\ lp_lock = "free"
    /\ lp_file' = FileWrite(lp_file, lp_fh, lp_line[1])
    /\ lp_line' = <<>>
    /\ lp_pc' = "check"
    /\ UNCHANGED <<notpipe, lp_pipe, lp_buf, lp_fh, lp_lock, lp_stop, lp_exit,
                   lp_next>>

(* logline(): the message is written under the lock *)
LpLogline ==
    /\ lp_lock = "free"
    /\ lp_fh = "open"
    /\ Cardinality({i \in DOMAIN lp_file : lp_file[i] = Banner}) < MaxBanner
    /\ lp_file' = Append(lp_file, Banner)
    /\ UNCHANGED <<notpipe, lp_pipe, lp_buf, lp_line, lp_fh, lp_lock, lp_pc,
                   lp_stop, lp_exit, lp_next>>

(* newlogfile(): the file is closed and opened again under the lock; ok is
   what os.access() finds *)
LpNewlogfile(ok) ==
    /\ lp_lock = "free"
    /\ lp_fh' = IF ok THEN "open" ELSE "closed"
    /\ UNCHANGED <<notpipe, lp_pipe, lp_buf, lp_line, lp_file, lp_lock, lp_pc,
                   lp_stop, lp_exit, lp_next>>

(* stop(): self._exit.set() *)
LpStopSet ==
    /\ lp_stop = "idle"
    /\ lp_exit' = TRUE
    /\ lp_stop' = "acquire"
    /\ UNCHANGED <<notpipe, lp_pipe, lp_buf, lp_line, lp_file, lp_fh, lp_lock,
                   lp_pc, lp_next>>

(* stop(): self._lckfh.acquire() *)
LpStopAcquire ==
    /\ lp_stop = "acquire"
    /\ lp_lock = "free"
    /\ lp_lock' = "stop"
    /\ lp_stop' = "write"
    /\ UNCHANGED <<notpipe, lp_pipe, lp_buf, lp_line, lp_file, lp_fh, lp_pc,
                   lp_exit, lp_next>>

(* stop(): os.write(self.fdw, b"\n") under the lock, which is then released;
   the write blocks while the pipe is full and raises, caught, once run() has
   closed fdw *)
LpStopWrite ==
    /\ lp_stop = "write"
    /\ lp_pc = "done" \/ ~PipeFull(lp_pipe)
    /\ lp_pipe' = IF lp_pc = "done" THEN lp_pipe ELSE Append(lp_pipe, Newline)
    /\ lp_lock' = "free"
    /\ lp_stop' = "returned"
    /\ UNCHANGED <<notpipe, lp_buf, lp_line, lp_file, lp_fh, lp_pc, lp_exit,
                   lp_next>>

(* a log pipe that RevPiPlc.run() has started *)
LpInit ==
    /\ PlcNone
    /\ ConnNone
    /\ stream = <<>>
    /\ AclNone
    /\ RpcNone
    /\ UplNone
    /\ MainNone
    /\ WdNone
    /\ SrvNone
    /\ StopNone
    /\ RaceNone
    /\ LastNone
    /\ lp_pipe = <<>>
    /\ lp_buf = <<>>
    /\ lp_line = <<>>
    /\ lp_file = <<>>
    /\ lp_fh = "open"
    /\ lp_lock = "free"
    /\ lp_pc = "check"
    /\ lp_stop = "idle"
    /\ lp_exit = FALSE
    /\ lp_next = 1

DoLpReadline == \E k \in 1..MaxPipe : LpReadline(k)

DoLpNewlogfile == \E ok \in BOOLEAN : LpNewlogfile(ok)

(* the writer thread *)
LpThread == LpCheck \/ DoLpReadline \/ LpWrite

(* the caller of stop() *)
LpStop == LpStopSet \/ LpStopAcquire \/ LpStopWrite

LpNext == LpChildLine \/ LpThread \/ LpLogline \/ DoLpNewlogfile \/ LpStop

(* both threads and the caller get their turn once stop() was called *)
SpecLogPipe ==
    /\ LpInit
    /\ [][LpNext]_vars
    /\ WF_vars(LpThread)
    /\ WF_vars(LpStopAcquire \/ LpStopWrite)

(* -------------------------------------------------------------------------- *)
(* The ACL manager between the mainloop, which loads, and a thread that looks   *)
(* up; every step is one access to an attribute of the manager                  *)
(* -------------------------------------------------------------------------- *)

MaxRaceEntries == 2     \* entries of an ACL that is loaded

(* all but the ACL manager *)
notrace == <<connvars, plcvars, framevars, rpcvars, uplvars, mainvars, wdvars,
             srvvars, stopvars, pipevars, lastvars, acl_filename, acl_ret>>

(* the peers that connect and the entries an ACL is made of *)
RaceIps == {Ip4(<<"1">>, <<"2">>), Ip4(<<"1">>, <<"3">>)}
RacePatterns == {Ip4(<<"1">>, <<"*">>), Ip4(<<"1">>, <<"2">>)}
RaceEntries == {<<ip, level>> : ip \in RacePatterns, level \in {0, 1}}

(* value.split() of an ACL that __set_acl has accepted: no pattern twice *)
RaceLists ==
    {<<e>> : e \in RaceEntries}
    \cup {l \in RaceEntries \X RaceEntries : l[1][1] # l[2][1]}

(* the keys of a dict *)
Keys(d) == {e[1] : e \in d}

(* d[key] *)
Get(d, key) == (CHOOSE e \in d : e[1] = key)[2]

(* sorted(keys, reverse=True) *)
RECURSIVE SortedReverse(_)
SortedReverse(keys) ==
    IF keys = {} THEN <<>>
    ELSE <<First(keys)>> \o SortedReverse(keys \ {First(keys)})

(* what a list yields for an address: the level of the first pattern of the
   sorted keys that matches, -1 without one *)
ListLevel(d, ipaddress) ==
    LET hits == {k \in Keys(d) : MatchIp(k, ipaddress)}
    IN  IF hits = {} THEN -1 ELSE Get(d, First(hits))

(* __set_acl(): self.__dict_acl = {} *)
SetAclBegin(list) ==
    /\ ld.pc = "idle"
    /\ dict_acl' = {}
    /\ ld' = [pc |-> "regex", todo |-> list]
    /\ UNCHANGED <<notrace, dict_knownips, dict_regex, lk>>

(* __set_acl(): self.__dict_regex = {} *)
SetAclRegex ==
    /\ ld.pc = "regex"
    /\ dict_regex' = {}
    /\ ld' = [ld EXCEPT !.pc = "known"]
    /\ UNCHANGED <<notrace, dict_acl, dict_knownips, lk>>

(* __set_acl(): self.__dict_knownips = {} *)
SetAclKnown ==
    /\ ld.pc = "known"
    /\ dict_knownips' = {}
    /\ ld' = [ld EXCEPT !.pc = "fill"]
    /\ UNCHANGED <<notrace, dict_acl, dict_regex, lk>>

(* __set_acl(): self.__dict_acl[ip] = int(level), or the end of the loop *)
SetAclFillAcl ==
    /\ ld.pc = "fill"
    /\ IF ld.todo = <<>>
       THEN ld' = NoLoad /\ dict_acl' = dict_acl
       ELSE /\ dict_acl' = Put(dict_acl, Head(ld.todo)[1], Head(ld.todo)[2])
            /\ ld' = [ld EXCEPT !.pc = "fillregex"]
    /\ UNCHANGED <<notrace, dict_knownips, dict_regex, lk>>

(* __set_acl(): self.__dict_regex[ip] = ... *)
SetAclFillRegex ==
    /\ ld.pc = "fillregex"
    /\ dict_regex' = dict_regex \cup {Head(ld.todo)[1]}
    /\ ld' = [pc |-> "fill", todo |-> Tail(ld.todo)]
    /\ UNCHANGED <<notrace, dict_acl, dict_knownips, lk>>

(* a lookup that has ended: what it returned, or that KeyError left it *)
Returned(level) == [NoLookup EXCEPT !.res = <<level>>]
KeyError == [NoLookup EXCEPT !.raised = TRUE]

(* get_acllevel(): "if ipaddress in self.__dict_knownips" *)
LookupBegin(ipaddress) ==
    /\ lk.pc = "idle"
    /\ lk' = [pc |-> IF ipaddress \in Keys(dict_knownips) THEN "known" ELSE "sort",
              ip |-> ipaddress, keys |-> <<>>, res |-> <<>>, raised |-> FALSE]
    /\ UNCHANGED <<notrace, dict_acl, dict_knownips, dict_regex, ld>>

(* get_acllevel(): "return self.__dict_knownips[ipaddress]" *)
LookupKnown ==
    /\ lk.pc = "known"
    /\ lk' = IF lk.ip \in Keys(dict_knownips)
             THEN Returned(Get(dict_knownips, lk.ip)) ELSE KeyError
    /\ UNCHANGED <<notrace, dict_acl, dict_knownips, dict_regex, ld>>

(* get_acllevel(): sorted(self.__dict_acl, reverse=True) *)
LookupSort ==
    /\ lk.pc = "sort"
    /\ lk' = [lk EXCEPT !.pc = "match", !.keys = SortedReverse(Keys(dict_acl))]
    /\ UNCHANGED <<notrace, dict_acl, dict_knownips, dict_regex, ld>>

(* get_acllevel(): refullmatch(self.__dict_regex[aclip], ipaddress) for the
   next key, or the end of the loop *)
LookupMatch ==
    /\ lk.pc = "match"
    /\ lk' = IF lk.keys = <<>> THEN Returned(-1)
             ELSE IF Head(lk.keys) \notin dict_regex THEN KeyError
             ELSE IF MatchIp(Head(lk.keys), lk.ip) THEN [lk EXCEPT !.pc = "memo"]
             ELSE [lk EXCEPT !.keys = Tail(lk.keys)]
    /\ UNCHANGED <<notrace, dict_acl, dict_knownips, dict_regex, ld>>

(* get_acllevel(): self.__dict_knownips[ipaddress] = self.__dict_acl[aclip] *)
LookupMemo ==
    /\ lk.pc = "memo"
    /\ IF Head(lk.keys) \in Keys(dict_acl)
       THEN /\ dict_knownips' = Put(dict_knownips, lk.ip, Get(dict_acl, Head(lk.keys)))
            /\ lk' = [lk EXCEPT !.pc = "return"]
       ELSE /\ dict_knownips' = dict_knownips
            /\ lk' = KeyError
    /\ UNCHANGED <<notrace, dict_acl, dict_regex, ld>>

(* get_acllevel(): "return self.__dict_acl[aclip]" *)
LookupReturn ==
    /\ lk.pc = "return"
    /\ lk' = IF Head(lk.keys) \in Keys(dict_acl)
             THEN Returned(Get(dict_acl, Head(lk.keys))) ELSE KeyError
    /\ UNCHANGED <<notrace, dict_acl, dict_knownips, dict_regex, ld>>

(* a manager that has loaded a list *)
AclRaceInit ==
    /\ PlcNone
    /\ ConnNone
    /\ stream = <<>>
    /\ RpcNone
    /\ UplNone
    /\ MainNone
    /\ WdNone
    /\ SrvNone
    /\ StopNone
    /\ PipeNone
    /\ LastNone
    /\ acl_filename = <<>>
    /\ acl_ret = <<>>
    /\ \E list \in RaceLists :
           /\ dict_acl = {list[i] : i \in DOMAIN list}
           /\ dict_regex = {list[i][1] : i \in DOMAIN list}
    /\ dict_knownips = {}
    /\ ld = NoLoad
    /\ lk = NoLookup

DoSetAclBegin == \E list \in RaceLists : SetAclBegin(list)

DoLookupBegin == \E ipaddress \in RaceIps : LookupBegin(ipaddress)

AclRaceNext ==
    \/ DoSetAclBegin \/ SetAclRegex \/ SetAclKnown \/ SetAclFillAcl
    \/ SetAclFillRegex
    \/ DoLookupBegin \/ LookupKnown \/ LookupSort \/ LookupMatch \/ LookupMemo
    \/ LookupReturn

SpecAclRace == AclRaceInit /\ [][AclRaceNext]_vars

(* -------------------------------------------------------------------------- *)
(* stop() of the supervisor between the statements of its thread                *)
(* -------------------------------------------------------------------------- *)

(* stop() while run() has not made the child: _procplc is None *)
StopBeforeSpawn ==
    /\ stop_pc = "idle"
    /\ plc_pc = "new"
    /\ plc_exit' = TRUE
    /\ stop_pc' = "done"
    /\ UNCHANGED <<connvars, newvars, plc_pc, child, child_code, spawned, sigterm,
                   sigkill, exitcode, autoreload, autoreloaddelay2, delaycounter,
                   zeroonerror, zeroonexit, stop_timeout, stop_count, waited>>

(* stop() up to its loop, wherever the thread is: _evt_exit.set(), terminate() *)
StopBeginAnywhere ==
    /\ stop_pc = "idle"
    /\ plc_pc \in {"loop", "respawn", "done"}
    /\ plc_exit' = TRUE
    /\ stop_count' = 0
    /\ stop_pc' = IF child = "none" THEN "done" ELSE "poll"
    /\ sigterm' = (child = "alive")
    /\ UNCHANGED <<connvars, newvars, plc_pc, child, child_code, spawned, sigkill,
                   exitcode, autoreload, autoreloaddelay2, delaycounter,
                   zeroonerror, zeroonexit, stop_timeout, waited>>

(* one pass of the loop of run() up to "self._procplc = self._spopen(lst_proc)",
   which is the next statement when plc_pc is "respawn" *)
PlcLoopDecide ==
    /\ plc_pc = "loop"
    /\ ~plc_exit
    /\ spawned < MaxSpawns \/ ~autoreload \/ child # "dead"
    /\ exitcode' = Poll
    /\ UNCHANGED <<srv_watchdog, c_state, acl, deadtime, watchdog, ey_dict, dirty,
                   dev_exit, got_replace_ios, doerror, developermode, sent,
                   newvars>>
    /\ UNCHANGED <<plc_exit, autoreload, autoreloaddelay2, zeroonerror, zeroonexit,
                   stop_timeout, stop_pc, stop_count, child, child_code, spawned,
                   sigterm, sigkill, waited>>
    /\ IF Poll = None
       THEN UNCHANGED <<image, plc_pc, delaycounter>>
       ELSE LET first == delaycounter = autoreloaddelay2
                zero == IF Crashed(child_code) THEN zeroonerror ELSE zeroonexit
            IN  /\ image' = IF first /\ zero THEN Zeroprocimg(image) ELSE image
                /\ IF autoreload
                   THEN IF DelayOver(delaycounter - 1)
                        THEN delaycounter' = autoreloaddelay2 /\ plc_pc' = "respawn"
                        ELSE delaycounter' = delaycounter - 1 /\ plc_pc' = plc_pc
                   ELSE plc_pc' = "done" /\ delaycounter' = delaycounter

(* run(): self._procplc = self._spopen(lst_proc) in the loop *)
PlcRespawn ==
    /\ plc_pc = "respawn"
    /\ plc_pc' = "loop"
    /\ Spopen
    /\ UNCHANGED <<connvars, newvars, exitcode, plc_exit, autoreload,
                   autoreloaddelay2, delaycounter, zeroonerror, zeroonexit,
                   stop_timeout, stop_pc, stop_count, waited>>

PlcRaceNext ==
    \/ PlcStart \/ PlcLoopDecide \/ PlcRespawn \/ PlcLoopEnd \/ DoChildExit
    \/ StopBeforeSpawn \/ StopBeginAnywhere \/ StopPoll \/ DoStopFinish

SpecPlcRace == PlcInit /\ [][PlcRaceNext]_vars

(* -------------------------------------------------------------------------- *)
(* A connection whose level the server changes after a reload of the ACL       *)
(* -------------------------------------------------------------------------- *)

(* RevPiSlave.check_connectedacl() for the connection: level is what the new
   ACL gives the address of the client *)
ConnCheckAcl(level) ==
    /\ c_state = "open"
    /\ IF level < 0
       THEN dev_exit' = TRUE /\ acl' = acl
       ELSE dev_exit' = dev_exit /\ acl' = level
    /\ UNCHANGED <<image, srv_watchdog, c_state, deadtime, watchdog, ey_dict,
                   dirty, got_replace_ios, doerror, developermode, sent>>

DoConnCheckAcl ==
    /\ UNCHANGED <<plcvars, newvars>>
    /\ \E level \in {-1, 0, 1} : ConnCheckAcl(level)

ConnAclNext == ConnNext \/ DoConnCheckAcl

SpecConnAcl == ConnInit /\ [][ConnAclNext]_vars

(* -------------------------------------------------------------------------- *)
(* A reload of the mainloop from its first to its last statement.  pending     *)
(* counts the settings of evt_loadconfig that no reload has started after.     *)
(* -------------------------------------------------------------------------- *)

(* "if self.evt_loadconfig.is_set():" finds the event set: _loadconfig() starts
   and reads the configuration file *)
LoadBegin ==
    /\ main_pc = "top"
    /\ evt_loadconfig
    /\ main_pc' = "loading"
    /\ pending' = 0
    /\ UNCHANGED <<connvars, plcvars, notmain, cfg, rsc, pictorymtime, hash_pict,
                   evt_loadconfig, triggered, not_implemented, loop_ret>>

(* the rest of _loadconfig(), up to "self.evt_loadconfig.clear()" *)
LoadEnd(new, rp, exists, code) ==
    /\ main_pc = "loading"
    /\ LET m == loadconfig(Me, new, rp, exists, code)
       IN  /\ m.plc.spawned <= MaxSpawns
           /\ SetMe(m)
           /\ loop_ret' = [reloads |-> m.reloads, served |-> 0,
                           file_changed |-> m.changed,
                           alive |-> Alive(PlcOf),
                           autoreload_only |-> FALSE,
                           restart |-> m.restart]
           /\ dev_exit' = IF c_state = "open" /\ m.changed THEN TRUE
                          ELSE dev_exit
    /\ evt_loadconfig' = FALSE
    /\ main_pc' = "check"
    /\ UNCHANGED <<srv_watchdog, c_state, acl, deadtime, watchdog, ey_dict, dirty,
                   got_replace_ios, doerror, developermode, sent, notmain,
                   rsc, pending, triggered, not_implemented>>

(* the event is not set: the iteration goes on to the file checks *)
LoadSkip ==
    /\ main_pc = "top"
    /\ ~evt_loadconfig
    /\ main_pc' = "check"
    /\ UNCHANGED <<connvars, plcvars, notmain, cfg, rsc, pictorymtime, hash_pict,
                   evt_loadconfig, pending, triggered, not_implemented,
                   loop_ret>>

DoLoadEnd ==
    \E rp \in BOOLEAN, code \in StopCodes : LoadEnd(ConfigFile, rp, TRUE, code)

(* the steps of the mainloop *)
LoadLoop == LoadBegin \/ DoLoadEnd \/ LoadSkip \/ DoMainCheck

LoadRaceNext ==
    \/ LoadBegin \/ DoLoadEnd \/ LoadSkip \/ DoMainCheck
    \/ SetLoadconfig \/ DoWriteRsc \/ ResetDriver

(* the mainloop keeps running *)
SpecLoadRace == HashInit /\ [][LoadRaceNext]_vars /\ WF_vars(LoadLoop)

(* -------------------------------------------------------------------------- *)
(* ResetDriverWatchdog: the watcher thread and the mainloop's reads of         *)
(* the property triggered                                                      *)
(* -------------------------------------------------------------------------- *)

MaxEvents == 6      \* reset-driver events the watcher detects

notrd == <<connvars, plcvars, framevars, aclvars, rpcvars, uplvars, mainvars,
           wdvars, srvvars, stopvars, pipevars, racevars, scvars>>

(* run(): the ioctl returns with the event, "self._triggered = True" *)
RdDetect ==
    /\ rd_events < MaxEvents
    /\ rd_triggered' = TRUE
    /\ rd_owed' = TRUE
    /\ rd_events' = rd_events + 1
    /\ UNCHANGED <<rd_pc, rd_rc, rd_seen, notrd>>

(* triggered: "rc = self._triggered" *)
RdRead ==
    /\ rd_pc = "idle"
    /\ rd_rc' = rd_triggered
    /\ rd_pc' = "read"
    /\ UNCHANGED <<rd_triggered, rd_owed, rd_events, rd_seen, notrd>>

(* triggered: "self._triggered = False; return rc" *)
RdClear ==
    /\ rd_pc = "read"
    /\ rd_triggered' = FALSE
    /\ rd_pc' = "idle"
    /\ rd_owed' = (rd_owed /\ ~rd_rc)
    /\ rd_seen' = IF rd_rc THEN rd_seen + 1 ELSE rd_seen
    /\ UNCHANGED <<rd_rc, rd_events, notrd>>

RdInit ==
    /\ PlcNone
    /\ ConnNone
    /\ stream = <<>>
    /\ AclNone
    /\ RpcNone
    /\ UplNone
    /\ MainNone
    /\ WdNone
    /\ SrvNone
    /\ StopNone
    /\ PipeNone
    /\ RaceNone
    /\ RdNone
    /\ ScNone

RdNext == RdDetect \/ RdRead \/ RdClear

(* the mainloop reads triggered in every iteration *)
SpecResetDriver == RdInit /\ [][RdNext]_vars /\ WF_vars(RdRead \/ RdClear)

(* -------------------------------------------------------------------------- *)
(* plcdelete_file and plcdownload_file: single files of the working directory  *)
(* -------------------------------------------------------------------------- *)

(* how the kernel resolves the components of an absolute path: cur is the
   directory reached; a name that is not the last one has to be a directory.
   None when the path does not resolve, else the components in a tuple *)
RECURSIVE Walk(_, _, _)
Walk(comps, cur, dirs) ==
    IF comps = <<>> THEN <<cur>>
    ELSE IF Head(comps) \in {<<>>, <<".">>} THEN Walk(Tail(comps), cur, dirs)
    ELSE IF Head(comps) = <<".", ".">>
    THEN Walk(Tail(comps), SubSeq(cur, 1, Max(0, Len(cur) - 1)), dirs)
    ELSE LET new == Append(cur, Head(comps))
         IN  IF Tail(comps) = <<>> \/ Rooted(new) \in dirs
             THEN Walk(Tail(comps), new, dirs)
             ELSE None

(* the file or directory the path names, None without one *)
Lookup(path) ==
    LET found == Walk(Split(path, "/"), <<>>, fs_dirs)
    IN  IF found # None /\ Rooted(found[1]) \in fs_files \cup fs_dirs
        THEN <<Rooted(found[1])>> ELSE None

(* os.rmdir(dirname) succeeds: the directory is there, is empty and the path
   does not end in "." or ".." *)
RmdirWorks(dirname, files, dirs) ==
    LET comps == Split(dirname, "/")
        found == Walk(comps, <<>>, dirs)
        d == Rooted(found[1])
    IN  /\ comps # <<>>
        /\ comps[Len(comps)] \notin {<<>>, <<".">>, <<".", ".">>}
        /\ found # None
        /\ d \in dirs
        /\ \A x \in (files \cup dirs) \ {d} : Dirname(x) # d

(* xml_plcdelete_file(file_name) *)
xml_plcdelete_file(name) ==
    LET file_name == PathJoin(plcworkdir, name)
        found == Lookup(file_name)
        dirname == Dirname(file_name)
    IN  IF found = None
        THEN upl_ret' = <<"False", file_name>> /\ UNCHANGED <<fs_files, fs_dirs>>
        ELSE IF found[1] \in fs_dirs
        THEN upl_ret' = <<"raised", found[1]>> /\ UNCHANGED <<fs_files, fs_dirs>>
        ELSE /\ fs_files' = fs_files \ {found[1]}
             /\ fs_dirs' = IF dirname # plcworkdir
                              /\ RmdirWorks(dirname, fs_files', fs_dirs)
                           THEN fs_dirs \ {Dirname(found[1])}
                           ELSE fs_dirs
             /\ upl_ret' = <<"deleted", found[1]>>

(* xml_plcdownload_file(file_name) *)
xml_plcdownload_file(name) ==
    LET file_name == PathJoin(plcworkdir, name)
        found == Lookup(file_name)
    IN  /\ UNCHANGED <<fs_files, fs_dirs>>
        /\ upl_ret' = IF found = None THEN <<"empty", file_name>>
                      ELSE IF found[1] \in fs_dirs THEN <<"raised", found[1]>>
                      ELSE <<"read", found[1]>>

(* the files of the device: the program and its data in the working directory,
   and files of the system beside it *)
FileInit ==
    /\ PlcNone
    /\ ConnNone
    /\ AclNone
    /\ RpcNone
    /\ MainNone
    /\ LateNone
    /\ stream = <<>>
    /\ fs_files = {<<"/", "w", "/", "f">>, <<"/", "w", "/", "d", "/", "f">>,
                   <<"/", "w", "/", "d", "/", "e">>,
                   <<"/", "w", "2", "/", "f">>, <<"/", "e", "/", "f">>}
    /\ fs_dirs = {<<"/">>, plcworkdir, <<"/", "w", "/", "d">>, <<"/", "w", "2">>,
                  <<"/", "e">>}
    /\ upl_ret = <<>>

DoDeleteFile ==
    /\ UNCHANGED notupl
    /\ \E name \in Filenames : xml_plcdelete_file(name)

DoDownloadFile ==
    /\ UNCHANGED notupl
    /\ \E name \in Filenames : xml_plcdownload_file(name)

FileNext == DoDeleteFile \/ DoDownloadFile

SpecFiles == FileInit /\ [][FileNext]_vars

(* -------------------------------------------------------------------------- *)
(* set_config: a client sends the configuration and the two ACLs.  Of the      *)
(* settings the model keeps autoreload and autostart, the first and the third  *)
(* key of DEFAULT; both ACL managers take the levels MinLevel..MaxLevel.       *)
(* -------------------------------------------------------------------------- *)

notsc == <<connvars, plcvars, framevars, aclvars, rpcvars, uplvars, wdvars,
           srvvars, stopvars, pipevars, racevars, rdvars>>

(* refullmatch("[01]", str(dc[key])) *)
Match01(value) == value \in {"0", "1"}

(* str(level) of a level 0..9 *)
Digit(level) == CHOOSE c \in DOMAIN Code : Code[c] = 48 + level

(* "for aclip in sorted(self.__dict_acl)": the entries as "ip,level" *)
RECURSIVE AclLines(_)
AclLines(d) ==
    IF d = {} THEN <<>>
    ELSE LET e == CHOOSE x \in d : \A y \in d : y = x \/ StrLess(x[1], y[1])
         IN  <<e[1] \o <<",", Digit(e[2])>>>> \o AclLines(d \ {e})

(* " ".join(lines) *)
RECURSIVE JoinBlank(_)
JoinBlank(lines) ==
    IF lines = <<>> THEN <<>>
    ELSE IF Len(lines) = 1 THEN lines[1]
    ELSE lines[1] \o <<" ">> \o JoinBlank(Tail(lines))

(* IpAclManager.acl, the getter: the entries in one line *)
AclGet(d) == JoinBlank(AclLines(d))

(* the ACLs clients send: two that the managers take and one with level 5 *)
ScAcls == {Ip4(<<"1">>, <<"2">>) \o <<",", l>> : l \in {"0", "4", "5"}}

(* what clients send as dc: "2" is no value of autostart *)
ScCalls ==
    [autoreload : {"0", "1"}, autostart : {"1", "2"},
     plcserveracl : ScAcls, xmlrpcacl : {t \in ScAcls : re_ipacl[t]}]

(* xml_setconfig(dc, loadnow); plc_w and xml_w: the ACL file of the PLC-Server
   and that of the RPC server can be written *)
xml_setconfig(dc, loadnow, plc_w, xml_w) ==
    LET valid1 == Match01(dc.autoreload)
        valid2 == valid1 /\ Match01(dc.autostart)
        valid == valid2 /\ re_ipacl[dc.plcserveracl] /\ re_ipacl[dc.xmlrpcacl]
        c1 == IF valid1 THEN [sc_conf EXCEPT !.autoreload = dc.autoreload]
              ELSE sc_conf
        c2 == IF valid2 THEN [c1 EXCEPT !.autostart = dc.autostart] ELSE c1
        plc_set == valid /\ AclGet(sc_acl.plc) # dc.plcserveracl
        plc_fail == plc_set /\ ~plc_w
        xml_set == valid /\ ~plc_fail /\ AclGet(sc_acl.xml) # dc.xmlrpcacl
        xml_fail == xml_set /\ ~xml_w
        ok == valid /\ ~plc_fail /\ ~xml_fail
    IN  /\ ok /\ loadnow => pending < MaxPending
        /\ sc_conf' = c2
        /\ sc_file' = IF valid THEN c2 ELSE sc_file
        /\ sc_acl' = [plc |-> IF plc_set THEN set_acl[dc.plcserveracl].acl
                              ELSE sc_acl.plc,
                      xml |-> IF xml_set THEN set_acl[dc.xmlrpcacl].acl
                              ELSE sc_acl.xml]
        /\ sc_aclfile' = [plc |-> IF plc_set /\ plc_w THEN AclLines(sc_acl'.plc)
                                  ELSE sc_aclfile.plc,
                          xml |-> IF xml_set /\ xml_w THEN AclLines(sc_acl'.xml)
                                  ELSE sc_aclfile.xml]
        /\ sc_ret' = [dc |-> dc, ok |-> ok]
        /\ evt_loadconfig' = (evt_loadconfig \/ (ok /\ loadnow))
        /\ pending' = IF ok /\ loadnow THEN pending + 1 ELSE pending
        /\ UNCHANGED <<cfg, rsc, pictorymtime, hash_pict, triggered,
                       not_implemented, loop_ret, main_pc, notsc>>

(* the daemon after _loadconfig(): what the files say is in memory *)
ScInit ==
    /\ PlcNone
    /\ ConnNone
    /\ stream = <<>>
    /\ AclNone
    /\ RpcNone
    /\ UplNone
    /\ MainNone
    /\ WdNone
    /\ SrvNone
    /\ StopNone
    /\ PipeNone
    /\ RaceNone
    /\ RdNone
    /\ sc_conf = [autoreload |-> "1", autostart |-> "1"]
    /\ sc_file = sc_conf
    /\ \E text \in {t \in ScAcls : re_ipacl[t]} :
           /\ sc_acl = [plc |-> set_acl[text].acl, xml |-> set_acl[text].acl]
           /\ sc_aclfile = [plc |-> AclLines(sc_acl.plc),
                            xml |-> AclLines(sc_acl.xml)]
    /\ sc_ret = <<>>

DoSetConfig ==
    \E dc \in ScCalls, loadnow \in BOOLEAN, plc_w \in BOOLEAN, xml_w \in BOOLEAN :
        xml_setconfig(dc, loadnow, plc_w, xml_w)

ScNext == DoSetConfig

SpecSetConfig == ScInit /\ [][ScNext]_vars

----------------------------------------------------------------------------
(* Properties of the connection worker *)

(* entry e of the dirty set covers position i *)
Covers(e, i) == i >= e[1] /\ i < e[1] + Len(e[2])

(* entry k of d shares a position with an entry after it in d *)
OverlappedLater(d, k) ==
    \E j \in (k + 1)..Len(d) : \E i \in Positions : Covers(d[k], i) /\ Covers(d[j], i)

(* the image holds the bytes of entry e *)
Holds(img, e) == ReadAt(img, e[1], Len(e[2])) = e[2]

(* C1: whenever a connection has ended other than by EX (the loop was left,
   or an exception ended the worker), every entry of its dirty set has been
   written to the process image.  The worker whose reply could not be sent
   has written none of them. *)
C1_DirtyWrittenOnAbnormalEnd ==
    (c_state \in {"closed", "crashed"} /\ dirty) =>
        image = ApplyDirty(image, ey_dict)

(* C2 as claimed: after an abnormal termination the image holds, at every
   position the dirty set records, the bytes last inserted for it, whatever
   the lengths and positions of the entries. *)
C2_EveryEntryHeld ==
    (c_state = "closed" /\ dirty) =>
        \A k \in 1..Len(ey_dict) : Holds(image, ey_dict[k])

(* C2 as amended: after the worker has left its loop and written its dirty
   set, the image holds the bytes of every recorded entry that shares no
   position with an entry after it in the order of the dirty set; where
   entries overlap, the later one is in the image. *)
C2_LaterEntryWins ==
    (c_state = "closed" /\ dirty) =>
        /\ \A k \in 1..Len(ey_dict) :
               ~OverlappedLater(ey_dict, k) => Holds(image, ey_dict[k])
        /\ \A i \in Positions, k \in 1..Len(ey_dict) :
               (/\ Covers(ey_dict[k], i)
                /\ \A j \in (k + 1)..Len(ey_dict) : ~Covers(ey_dict[j], i))
               => image[i] = ey_dict[k][2][i - ey_dict[k][1] + 1]

(* two overlapping entries were written, and the image shows the later one *)
C2_Witness ==
    /\ c_state = "closed" /\ dirty
    /\ Len(ey_dict) = 2
    /\ OverlappedLater(ey_dict, 1)
    /\ ~Holds(image, ey_dict[1])
    /\ Holds(image, ey_dict[2])

(* C3: the pass that handles EX closes the connection and leaves the process
   image as it is, whatever the dirty set holds. *)
C3_ExWritesNothing ==
    [][DoEX => (c_state' = "closed" /\ image' = image)]_vars

(* a connection ended by EX whose dirty set would have changed the image *)
C3_Witness ==
    /\ c_state = "closed" /\ ~dirty
    /\ ey_dict # <<>>
    /\ image # ApplyDirty(image, ey_dict)

(* C4: a WD, FD or EY pass on a connection of a level below 1 ends the
   connection; the reply, when it can be sent, is 0x18 and the connection is
   closed; the dirty set is as before, and the image is as before but for the
   dirty bytes recorded earlier, which the closing writes. *)
C4_DeniedWriteChangesNothing ==
    [][(acl < 1 /\ (DoWD \/ DoFD \/ DoEY)) =>
          /\ ey_dict' = ey_dict
          /\ c_state' # "open"
          /\ sent' \in {<<DENIED>>, <<>>}
          /\ sent' = <<DENIED>> => c_state' = "closed"
          /\ image' = IF c_state' = "closed"
                      THEN ApplyDirty(image, ey_dict) ELSE image]_vars

(* a denied request on an image that is not all zero *)
C4_Witness ==
    /\ acl < 1
    /\ c_state = "closed"
    /\ sent = <<DENIED>>
    /\ image # ZeroImage

(* C5: an FD pass whose payload is a list of well-formed records and whose
   reply 0x1E leaves the connection open has written the records in their
   order: the image holds every record no later record overlaps, every
   position holds the byte of the last record that covers it, and the
   positions no record covers are as before. *)
C5_FdRecordsInOrder ==
    [][(c_state = "open" /\ c_state' = "open" /\ sent' = <<RS>>) =>
          \A rs \in RecordLists : \A t \in Times :
              FD(EncodeRecords(rs), "none", t) =>
                  /\ \A k \in 1..Len(rs) :
                         ~OverlappedLater(rs, k) => Holds(image', rs[k])
                  /\ \A i \in Positions, k \in 1..Len(rs) :
                         (/\ Covers(rs[k], i)
                          /\ \A j \in (k + 1)..Len(rs) : ~Covers(rs[j], i))
                         => image'[i] = rs[k][2][i - rs[k][1] + 1]
                  /\ \A i \in Positions :
                         (\A k \in 1..Len(rs) : ~Covers(rs[k], i))
                         => image'[i] = image[i]]_vars

(* an FD of two overlapping records was acknowledged: the image shows the
   second record where the two overlap and the first where it lies alone *)
C5_Witness ==
    /\ c_state = "open" /\ sent = <<RS>> /\ acl >= 1
    /\ deadtime = None
    /\ image[0] = 1 /\ image[1] = 0

(* C6 as claimed: a DA pass answers with exactly as many bytes as the
   request asks for, for every position and length, and the connection
   stays open. *)
C6_ExactlyLengthBytes ==
    [][\A p \in 0..ImgLen, n \in Lens, t \in Times :
          DA(p, n, "none", t) => (Len(sent') = n /\ c_state' = "open")]_vars

(* the pass overruns a deadline the watchdog enforces *)
Overrun(dt, t) == dt # None /\ t > dt[1] /\ watchdog

(* C6 as amended: a DA pass answers with the bytes of the image from the
   position on, as many as asked for when they lie inside the image and
   those up to the end of the image otherwise; the image is as before; the
   connection stays open unless the pass overruns a deadline the watchdog
   enforces, and it is closed when the read or the send fails. *)
C6_BytesInsideImage ==
    [][\A p \in 0..ImgLen, n \in Lens :
          /\ \A t \in Times :
                DA(p, n, "none", t) =>
                    /\ p + n <= ImgLen => Len(sent') = n
                    /\ p + n > ImgLen => Len(sent') = ImgLen - p
                    /\ \A i \in 1..Len(sent') : sent'[i] = image[p + i - 1]
                    /\ c_state' = IF Overrun(deadtime, t) THEN "closed" ELSE "open"
                    /\ Overrun(deadtime, t) \/ image' = image
          /\ \A f \in {"io", "send"} :
                DA(p, n, f, 1) => (c_state' = "closed" /\ sent' = <<>>)]_vars

(* a DA that reached over the end of the image got one byte, not two *)
C6_Witness ==
    /\ c_state = "open"
    /\ Len(sent) = 1
    /\ image[ImgLen - 1] = 1
    /\ sent[1] = 1

(* a pass of run time t that comes to the run time check: the request is
   served and it is none of PI, RP, EX *)
CheckedPass(t) ==
    \/ \E p \in 0..ImgLen, n \in Lens : DA(p, n, "none", t)
    \/ acl >= 1 /\ \E p \in Positions : \E data \in Payloads(p) : WD(p, data, "none", t)
    \/ acl >= 1 /\ \E rs \in ShortLists : FD(EncodeRecords(rs), "none", t)
    \/ Ping("none", t)
    \/ \E ms \in 1..MaxTimeout : CF(ms, "none", t)
    \/ acl >= 1 /\ \E p \in Positions : \E data \in Payloads(p) : EY(p, 0, data, "none", t)
    \/ acl >= 1 /\ \E p \in Positions, control \in {254, 255} : EY(p, control, <<>>, "none", t)
    \/ PH("none", t)
    \/ RH("none", t)
    \/ acl >= 1 /\ \E ioctl_ok \in BOOLEAN : IC(ioctl_ok, "none", t)

(* a pass of run time t that serves a request of any kind but EX *)
ServedPass(t) ==
    \/ CheckedPass(t)
    \/ \E readable \in BOOLEAN : PI(readable, "none", t) /\ sent' # <<>>
    \/ \E readable \in BOOLEAN : RP(readable, "none", t) /\ sent' # <<>>

(* C10 as claimed: with a deadline set and the watchdog enabled, no pass that
   takes longer than the deadline leaves the connection open. *)
C10_EveryOverrunCloses ==
    [][(c_state = "open" /\ c_state' = "open" /\ watchdog /\ deadtime' # None) =>
          ~(\E t \in Times : t > deadtime'[1] /\ ServedPass(t))]_vars

(* C10 as amended: with a deadline set (by an earlier CF or by the CF of
   this pass) and the watchdog enabled, a served request other than PI, RP
   and EX that takes longer than the deadline closes the connection, and the
   closing writes the dirty set; with the watchdog disabled the connection
   stays open after such a request; a new watchdog policy of the server is
   the policy of the connection at once. *)
C10_CheckedOverrunCloses ==
    [][/\ (/\ c_state = "open" /\ deadtime' # None
           /\ c_state' # (IF watchdog THEN "closed" ELSE "open")) =>
              ~(\E t \in Times : t > deadtime'[1] /\ CheckedPass(t))
       /\ (c_state = "open" /\ c_state' = "closed" /\ dirty') =>
              image' = ApplyDirty(image', ey_dict')
       /\ DoSetWatchdog => watchdog' = srv_watchdog']_vars

(* an overrun closed a connection and its dirty bytes are in the image *)
C10_Witness ==
    /\ c_state = "closed" /\ dirty /\ watchdog
    /\ deadtime # None
    /\ sent = <<6, 22>>
    /\ ey_dict # <<>>
    /\ image # ZeroImage
    /\ image = ApplyDirty(ZeroImage, ey_dict)

----------------------------------------------------------------------------
(* Properties of the program supervisor *)

(* the rule of the process image after an exit with the code *)
ShouldZero(code) == (code = 0 /\ zeroonexit) \/ (code # 0 /\ zeroonerror)

(* C7: the pass of the loop that first sees the child dead sets the process
   image to zero when the exit code is 0 and zeroonexit is set or the exit
   code is not 0 (negative codes too) and zeroonerror is set, and leaves the
   image as it is otherwise. *)
C7_ZeroByExitCode ==
    [][(PlcLoop /\ child = "dead" /\ delaycounter = autoreloaddelay2) =>
          image' = IF ShouldZero(child_code) THEN ZeroImage ELSE image]_vars

(* half seconds the loop has waited, in the pass under way, since it first
   saw the child dead *)
WaitedSoFar == IF delaycounter = autoreloaddelay2 THEN 0 ELSE waited

(* C8: a pass of the loop that finds the child dead starts a new child if and
   only if autoreload is set and the loop has waited autoreloaddelay seconds
   (two passes each) since it first saw the child dead; stop() set, no pass
   runs.  With autoreload not set the pass ends the loop, starts no child and
   leaves the child's exit code in exitcode. *)
C8_RespawnAfterDelay ==
    [][(PlcLoop /\ child = "dead") =>
          /\ ~plc_exit
          /\ (spawned' = spawned + 1) <=>
                 (autoreload /\ WaitedSoFar >= autoreloaddelay2)
          /\ spawned' \in {spawned, spawned + 1}
          /\ ~autoreload =>
                 (plc_pc' = "done" /\ child' = "dead" /\ exitcode' = <<child_code>>)
          /\ autoreload => plc_pc' = "loop"]_vars

(* a second child was started a full second after the first was seen dead *)
C8_Witness ==
    /\ spawned = 2
    /\ child = "alive"
    /\ autoreloaddelay2 = 2
    /\ waited = 2
    /\ exitcode # None

(* C9: stop() sends SIGKILL only when the child has stayed alive for the
   configured stop_timeout seconds (two polls each) after SIGTERM. *)
C9_KillAfterStopTimeout ==
    sigkill => stop_count = 2 * stop_timeout

----------------------------------------------------------------------------
(* Properties of the socket of a connection *)

(* the payload bytes that belong to the request of frame h *)
PayloadOf(h) == IF h[2] \in {"WD", "FD", "EY", "IC"} THEN h[4] ELSE 0

(* the payload bytes the worker reads for frame h *)
PayloadRead(h) ==
    IF h[2] = "EY" /\ h[5] \in {254, 255} THEN 0 ELSE PayloadOf(h)

(* C11 as claimed: a pass that handles a valid frame of a registered
   command and leaves the connection open has read the frame and, for WD,
   FD, EY and IC, the length bytes of payload after it *)
C11_ConsumesFrameAndLength ==
    [][(Aligned /\ stream' # stream /\ c_state' = "open")
        => stream' = Drop(PayloadOf(Header))]_vars

(* C11: a pass that handles a valid frame of a registered command and
   leaves the connection open has read the frame and, for WD, FD, IC and
   for an EY whose control byte is neither 0xFF nor 0xFE, the length bytes
   of payload after it; for an EY that clears (control byte 0xFF or 0xFE)
   it has read the frame only *)
C11_ConsumesWhatHandlerReads ==
    [][(Aligned /\ stream' # stream /\ c_state' = "open")
        => stream' = Drop(PayloadRead(Header))]_vars

(* an EY with one byte of payload was stored, the next frame is at the
   head of the socket *)
C11_Witness ==
    /\ c_state = "open"
    /\ Aligned
    /\ \E k \in 1..Len(ey_dict) : Len(ey_dict[k][2]) = 1

----------------------------------------------------------------------------
(* Properties of the ACL manager *)

(* the last call was get_acllevel *)
Asked == Len(acl_ret) = 3

(* C14: get_acllevel returns -1 or a level from minlevel to maxlevel, and a
   call of it changes the level of no IP, so that a second call with the
   same IP and no load in between returns what the first returned *)
C14_LevelInRangeAndStable ==
    /\ [](Asked => acl_ret[3] \in {-1} \cup (MinLevel..MaxLevel))
    /\ [][Asked' => /\ acl_ret'[3] = Level(acl_ret'[2])
                    /\ \A ip \in Ips : Level(ip)' = Level(ip)]_vars

(* a level was returned from the memo *)
C14_Witness ==
    /\ Asked
    /\ acl_ret[3] = MaxLevel
    /\ <<acl_ret[2], MaxLevel>> \in dict_knownips
    /\ Cardinality(dict_acl) = 2

(* C15: a load that does not take its input reports failure without
   raising, and leaves the entry list, the memo and the remembered file
   path as they were; no load raises *)
C15_FailedLoadKeepsState ==
    [][(~Asked' /\ acl_ret' # <<"load", TRUE>>)
        => /\ acl_ret' = <<"load", FALSE>>
           /\ UNCHANGED <<dict_acl, dict_knownips, acl_filename>>]_vars

(* C16: get_acllevel returns the level of the pattern that is the greatest
   string among the patterns of the list that match the IP; when the IP
   itself is a pattern of the list and a pattern with wildcards matches it
   too, the level of the IP's own pattern is returned *)
C16_MostSpecificWins ==
    Asked =>
        LET ip == acl_ret[2]
            hits == {e \in dict_acl : MatchIp(e[1], ip)}
        IN  /\ hits = {} => acl_ret[3] = -1
            /\ \A e \in hits :
                (\A o \in hits : ~StrLess(e[1], o[1])) => acl_ret[3] = e[2]
            /\ \A e \in hits :
                (e[1] = ip /\ Cardinality(hits) > 1) => acl_ret[3] = e[2]

(* an IP with its own entry and a wildcard entry was looked up *)
C16_Witness ==
    /\ Asked
    /\ acl_ret[2] = Ip4(<<"1">>, <<"2">>)
    /\ dict_acl = {<<Ip4(<<"1">>, <<"2">>), 4>>, <<Ip4(<<"1">>, <<"*">>), 0>>}
    /\ acl_ret[3] = 4

----------------------------------------------------------------------------
(* Properties of the XML-RPC server *)

(* the minimum levels of the methods *)
MinimumLevel ==
    [m \in {"version", "xmlmodus", "load_applog", "load_plclog", "plcexitcode",
            "plcrunning", "plcstart", "plcstop", "reload"} |-> 0]
    @@ [m \in {"psstart", "psstop"} |-> 1]
    @@ [m \in {"get_config", "get_filelist", "get_pictoryrsc", "get_procimg",
               "plcdownload"} |-> 2]
    @@ [m \in {"plcupload", "plcuploadclean", "resetpicontrol", "mqttstart",
               "mqttstop", "plcslavestart", "plcslavestop", "plcdeletefile",
               "plcdownload_file"} |-> 3]
    @@ [m \in {"set_config", "set_pictoryrsc"} |-> 4]

(* the methods a request has called, by itself or in its multicall *)
Called(call) ==
    IF call[1] = "system.multicall"
    THEN {call[2][i] : i \in 1..Len(call[2])} ELSE {call[1]}

(* C12: the body of a method has run only if the level of the caller's IP,
   looked up on that request, is at least the minimum level of the method;
   a call below that level has raised the runtime error, and a request of
   an IP of level -1 is answered with 401 and nothing is dispatched *)
C12_BodyOnlyAtLevel ==
    /\ [](rpc_ret.status # 0 =>
            /\ \A m \in DOMAIN MinimumLevel :
                /\ m \in rpc_ret.ran => requestacl >= MinimumLevel[m]
                /\ (m \in Called(rpc_ret.call) /\ requestacl >= 0
                        /\ requestacl < MinimumLevel[m])
                    => m \in rpc_ret.denied /\ m \notin rpc_ret.ran
            /\ requestacl = -1 => rpc_ret.status = 401 /\ rpc_ret.ran = {})
    /\ [][<<requestacl, rpc_ret>>' # <<requestacl, rpc_ret>>
            => requestacl' = Level(rpc_ret'.ip)]_vars

(* one multicall of a level 2 caller: get_config has run, set_config was
   refused *)
C12_Witness ==
    /\ rpc_ret.status = 200
    /\ requestacl = 2
    /\ "get_config" \in rpc_ret.ran
    /\ "set_config" \in rpc_ret.denied

----------------------------------------------------------------------------
(* Properties of plcupload *)

(* path is the working directory or lies in it *)
Inside(path) ==
    path = plcworkdir
    \/ (Len(path) > Len(plcworkdir)
        /\ SubSeq(path, 1, Len(plcworkdir) + 1) = plcworkdir \o <<"/">>)

(* C13: plcupload writes a file only if the working directory joined with
   the path of the client lies, normalised, inside the working directory;
   for every other path it fails, and no file and no directory is created
   outside the working directory *)
C13_UploadStaysInside ==
    /\ \A path \in fs_files \cup fs_dirs : Inside(path)
    /\ upl_ret # <<>> /\ ~Inside(upl_ret[2]) => upl_ret[1] = "False"

----------------------------------------------------------------------------
(* Properties of the mainloop *)

(* one step of the mainloop from the head of an iteration to its file checks *)
HeadStep == main_pc = "top" /\ main_pc' = "check"

(* C18: when evt_loadconfig was set twice (or once, or more often) before the
   mainloop looks at it, the head of the iteration performs exactly one reload
   for all the settings and leaves the event clear, so that no second reload
   follows for them; without a setting there is no reload *)
C18_OneReloadForTwoRequests ==
    [][HeadStep =>
        /\ loop_ret'.reloads = (IF evt_loadconfig THEN 1 ELSE 0)
        /\ loop_ret'.served = pending
        /\ ~evt_loadconfig'
        /\ pending' = 0]_vars

(* one reload has served two settings of the event *)
C18_Witness ==
    /\ loop_ret.served = 2
    /\ loop_ret.reloads = 1
    /\ ~evt_loadconfig

(* a reload of a daemon whose control program runs, in which only autoreload
   changed and check_pictory_changed() and check_replace_ios_changed() found
   no change *)
OnlyAutoreload ==
    /\ HeadStep
    /\ evt_loadconfig
    /\ plc_pc = "loop" /\ child = "alive"
    /\ cfg' = [cfg EXCEPT !.autoreload = ~cfg.autoreload]
    /\ ~loop_ret'.file_changed

(* check_pictory_changed() reads the file and stops the program: the mtime is
   new to the daemon, the document has no LED address and the software watchdog
   is on *)
StoppedForLed ==
    /\ rsc.there = "ok"
    /\ rsc.mtime # pictorymtime
    /\ get_revpiled_address(rsc.data) < 0
    /\ cfg'.plcprogram_watchdog > 0

(* C19 as it stands: a reload in which only autoreload changed, and neither file
   changed, leaves the running child as it is, starts no other one, and sets
   the new value on the running supervisor *)
C19_AutoreloadInPlace ==
    [][OnlyAutoreload =>
        /\ plc_pc' = "loop" /\ child' = "alive" /\ ~sigterm'
        /\ spawned' = spawned
        /\ autoreload' = cfg'.autoreload]_vars

(* C19: a reload in which only autoreload changed, and neither file changed,
   starts no child and sets the new value on the supervisor it has; it leaves
   the running child as it is unless it reads a hardware-config file that was
   touched and has no LED address while the software watchdog is on: then it
   stops the child *)
C19_AutoreloadInPlaceOrLedStop ==
    [][OnlyAutoreload =>
        /\ spawned' = spawned
        /\ autoreload' = cfg'.autoreload
        /\ IF StoppedForLed
           THEN plc_pc' = "done" /\ child' = "dead"
           ELSE plc_pc' = "loop" /\ child' = "alive" /\ ~sigterm']_vars

(* a reload has changed autoreload alone, from TRUE to FALSE, and the child it
   found runs on under the supervisor that now has the new value *)
C19_Witness ==
    /\ main_pc = "check"
    /\ loop_ret.reloads = 1
    /\ loop_ret.autoreload_only
    /\ loop_ret.alive
    /\ ~loop_ret.file_changed
    /\ plc_pc = "loop" /\ child = "alive" /\ ~sigterm
    /\ ~cfg.autoreload /\ ~autoreload

(* one step of the mainloop from its file checks to the end of the iteration *)
CheckStep == main_pc = "check" /\ main_pc' # "check"

(* the mainloop stops the program and builds its supervisor anew: a new child
   runs, or the mainloop has failed over a supervisor it did not get *)
RuleFired == spawned' = spawned + 1 \/ main_pc' = "crashed"

(* what reset_driver_action asks for in this iteration *)
ActionAsks ==
    \/ cfg.reset_driver_action = 1 /\ loop_ret'.file_changed
    \/ cfg.reset_driver_action = 2 /\ triggered

(* C20 as it stands: in an iteration with a running control program the
   mainloop sets out to restart the program exactly when reset_driver_action is
   1 and a file change was detected, or 2 and a reset-driver event was detected *)
C20_RestartByAction ==
    [][CheckStep /\ plc_pc = "loop" => (RuleFired <=> ActionAsks)]_vars

(* C20: in each iteration the mainloop stops the program to restart it exactly
   when the watcher is implemented, the program still runs after the file
   checks, and reset_driver_action asks for it; the program runs again unless
   the mainloop failed; with reset_driver_action 0 nothing is restarted *)
C20_RestartByActionWhenWatched ==
    [][CheckStep =>
        /\ RuleFired <=>
               (~not_implemented /\ loop_ret'.alive /\ ActionAsks)
        /\ RuleFired /\ main_pc' = "top" => plc_pc' = "loop" /\ child' = "alive"
        /\ cfg.reset_driver_action = 0 => spawned' = spawned]_vars

(* the mainloop has restarted a running program for a file change, with
   reset_driver_action 1 *)
C20_Witness ==
    /\ main_pc = "top"
    /\ loop_ret.restart
    /\ loop_ret.file_changed
    /\ cfg.reset_driver_action = 1
    /\ ~not_implemented
    /\ plc_pc = "loop" /\ child = "alive"
    /\ spawned = 2

(* a step of the mainloop that calls check_pictory_changed() *)
Looks ==
    \/ HeadStep /\ evt_loadconfig
    \/ CheckStep /\ (triggered \/ not_implemented)

(* what PH sends is HASH_PICT as it is when the request is served *)
PhSendsHash == [][sent' # sent /\ sent' # <<>> => sent' = hash_pict]_vars

(* C17 as it stands: when an iteration of the mainloop ends, HASH_PICT, which
   PH sends, is the MD5 digest of the bytes the hardware-config file has *)
C17_HashFollowsFile ==
    /\ PhSendsHash
    /\ [][CheckStep /\ rsc.there = "ok" => hash_pict' = md5(rsc.data)]_vars

(* C17: when the mainloop looks at the hardware-config file for the first time
   after its mtime changed, in a reload or after a reset-driver event or
   without a watcher, and can read it, HASH_PICT, which PH sends, becomes the
   MD5 digest of its bytes; no other step changes HASH_PICT *)
C17_HashFollowsFileLookedAt ==
    /\ PhSendsHash
    /\ [][Looks /\ rsc.there = "ok" /\ rsc.mtime # pictorymtime =>
            hash_pict' = md5(rsc.data)]_vars
    /\ [][hash_pict' # hash_pict => Looks]_vars

(* the file was written with other bytes, the mainloop has looked at it, and a
   PH request got the digest of the new bytes *)
C17_Witness ==
    /\ c_state = "open"
    /\ rsc.mtime = 2
    /\ rsc.data # configrsc
    /\ pictorymtime = rsc.mtime
    /\ hash_pict = md5(rsc.data)
    /\ sent = hash_pict

----------------------------------------------------------------------------
(* Properties of the soft watchdog *)

(* the watchdog triggers in this step *)
WdTriggers == ~wd_triggered /\ wd_triggered'

(* a sampling task is started in this step *)
WdStarts == ~WdAlive /\ wd_pc' \in {"delay", "sample", "rest"}

(* C21: the watchdog triggers only in its sampling task, with a timeout above 0
   and after the bit showed no transition for that many seconds; it then kills
   the process it was given, kills none when it was given none, and its task
   ends; no step of the watchdog starts a control program; while it is
   triggered no sampling task is started; and a sampling task that runs while
   the bit has stopped toggling triggers, unless it is stopped first *)
C21_TriggersKillsAndEnds ==
    /\ [][/\ WdTriggers =>
               /\ wd_pc = "sample" /\ wd_timeout > 0 /\ wd_elapsed >= wd_timeout
               /\ wd_pc' = "done"
               /\ wd_sigkill' <=> wd_process = "set"
          /\ (wd_triggered /\ wd_triggered') => ~WdStarts
          /\ spawned' = spawned /\ child' = child]_vars
    /\ (wd_frozen /\ WdAlive) ~> (wd_triggered \/ ~WdAlive)

(* the watchdog has triggered and killed the process, its task has ended and a
   new timeout was set since *)
C21_Witness ==
    /\ wd_triggered
    /\ wd_sigkill
    /\ wd_pc = "done"
    /\ wd_frozen
    /\ wd_timeout = MaxWdTimeout
    /\ wd_elapsed < wd_timeout

----------------------------------------------------------------------------
(* Properties of the reported exit code *)

(* what xml_plcexitcode() returns now: the supervisor exists, its thread is
   alive from start() until run() returns *)
Reported == xml_plcexitcode(FALSE, exitcode, plc_pc = "loop")

(* the supervisor's last look at the child is still true *)
Current == exitcode = Poll

(* C22: plcexitcode reports -1 while the child runs, -3 when the program never
   ran and the exit code of the last child otherwise; a report may lag behind
   the child by the half second between two looks of the supervisor. *)
C22_ExitCodeReported ==
    /\ (child = "alive" /\ Current) => Reported = -1
    /\ spawned = 0 => Reported = -3
    /\ (child = "dead" /\ Current) => Reported = child_code

----------------------------------------------------------------------------
(* Properties of the document transfer *)

(* struct.unpack("<I", b[0:4]) *)
UnpackU32(b) == b[1] + 256 * b[2] + 65536 * b[3] + 16777216 * b[4]

(* the reply is the length of the document, 4 bytes little endian, and the
   document *)
IsDocument(reply, document) ==
    /\ Len(reply) = 4 + Len(document)
    /\ UnpackU32(reply) = Len(document)
    /\ \A i \in 1..Len(document) : reply[4 + i] = document[i]

(* a PI request is handled, the socket works; readable: the file can be read *)
PiStep(readable) == c_state = "open" /\ PI(readable, "none", 1)

(* C23 as stated: PI replies with the length and the document, and with a
   length of four zero bytes when the document cannot be read. *)
C23_PiLengthOrZero ==
    [][\A readable \in BOOLEAN :
          PiStep(readable) =>
              IF readable THEN IsDocument(sent', configrsc)
              ELSE sent' = <<0, 0, 0, 0>>]_vars

(* C23 amended: PI replies with the length and the document and the connection
   stays open; when the document cannot be read it sends nothing and the
   worker ends the connection. *)
C23_PiLengthOrClose ==
    [][\A readable \in BOOLEAN :
          PiStep(readable) =>
              IF readable THEN IsDocument(sent', configrsc) /\ c_state' = "open"
              ELSE sent' = <<>> /\ c_state' = "closed"]_vars

(* a client with a deadline has got no reply and the connection was ended:
   of the requests of this client only a PI that fails does that *)
C23_Witness ==
    /\ c_state = "closed"
    /\ sent = <<>>
    /\ deadtime # None

----------------------------------------------------------------------------
(* Properties of a failing process image *)

(* a DA, WD, FD or IC request that was received whole is handled and the read,
   the write or the ioctl on the process image fails; the client may write *)
IoFailStep ==
    /\ c_state = "open"
    /\ \/ \E p \in 0..ImgLen, n \in Lens : DA(p, n, "io", 1)
       \/ WriteAllowed(acl) /\ \E p \in Positions : WD(p, <<>>, "io", 1)
       \/ WriteAllowed(acl) /\ FD(<<>>, "io", 1)
       \/ WriteAllowed(acl) /\ \E t \in Times : IC(FALSE, "none", t)

(* the pass took longer than the deadline of a connection with a watchdog *)
Overran == deadtime # None /\ watchdog /\ c_state' = "closed"

(* C24: a failure of the process image while DA, WD, FD or IC is handled is
   answered with 0xFF and the connection is kept, unless the pass overran the
   deadline of the connection. *)
C24_IoFailureAnswered ==
    [][IoFailStep => sent' = <<ERR>> /\ (c_state' = "open" \/ Overran)]_vars

----------------------------------------------------------------------------
(* Properties of a reload with an invalid configuration *)

(* the mainloop reloads a configuration file with an invalid value *)
InvalidReload ==
    /\ main_pc = "top"
    /\ evt_loadconfig
    /\ \E why \in InvalidKinds, rp \in BOOLEAN, exists \in BOOLEAN,
          code \in StopCodes :
           MainReloadInvalid(why, ConfigFile, rp, exists, code)

(* C25: after a reload whose configuration is invalid for one subsystem the
   mainloop goes on. *)
C25_InvalidReloadKeepsMainloop ==
    [][InvalidReload => main_pc' # "crashed"]_vars

----------------------------------------------------------------------------
(* Properties of the reset-driver watcher *)

(* C26: once the watcher has found the ioctl not implemented, or could not open
   the process image, a read of its triggered property returns true. *)
C26_TriggeredWhenNotImplemented ==
    not_implemented => triggered_property

----------------------------------------------------------------------------
(* Properties of the PLC-Server and its connections *)

(* stop() was called on the worker of a connection *)
Dropped(c) == dev[c].exit

(* C27: when check_connectedacl() has returned for the ACL that is loaded,
   every live connection whose peer has a level below 0 was dropped and every
   other live connection has the level of its peer, the connections accepted
   while the ACL was loaded or checked included. *)
C27_CheckedConnectionsFollowAcl ==
    checked =>
        \A c \in Conns :
            dev[c].st = "live" =>
                \/ Dropped(c)
                \/ /\ ip_level[dev[c].ip] >= 0
                   /\ dev[c].acl = ip_level[dev[c].ip]

(* C28: disconnect_replace_ios() drops exactly the live connections that have
   sent RH or RP and leaves the others as they are. *)
C28_DropsOverlayClients ==
    [][disconnect_replace_ios =>
          \A c \in Conns :
              dev[c].st = "live" =>
                  IF dev[c].got \/ dev[c].rp
                  THEN dev'[c].exit
                  ELSE dev'[c] = dev[c]]_vars

(* the values that decide about the acceptor differ from the ones held *)
SrvChanged(section, new) ==
    (IF section THEN new ELSE SrvFallback) # srv_cfg

(* a reload with only the ACL changed keeps the acceptor, its list and the
   workers the new ACL permits, and gives them the new level *)
KeptInPlace(levels) ==
    /\ th_plcserver' = th_plcserver
    /\ th_dev' = th_dev
    /\ acc' = acc
    /\ \A c \in th_dev :
           dev[c].st = "live" /\ levels[dev[c].ip] >= 0 =>
               dev'[c] = [dev[c] EXCEPT !.acl = levels[dev[c].ip]]

(* C29 as stated: a reload stops and rebuilds the acceptor only when bindip,
   port or plcserver changed; with only the ACL changed everything is kept and
   the ACL is applied in place. The values of the file and the ACL are read
   off the step. *)
C29_RebuiltOnlyOnSrvChange ==
    [][\A section \in BOOLEAN, file_changed \in BOOLEAN :
           ServerReload(section, srv_cfg', file_changed, ip_level') =>
               /\ th_plcserver' # th_plcserver => SrvChanged(section, srv_cfg')
               /\ ~SrvChanged(section, srv_cfg') /\ th_plcserver.st = "alive"
                      => KeptInPlace(ip_level')]_vars

(* C29 amended: the acceptor is also rebuilt when the reload finds the
   hardware configuration or the overlay file changed. *)
C29_RebuiltOnSrvOrFileChange ==
    [][\A section \in BOOLEAN, file_changed \in BOOLEAN :
           ServerReload(section, srv_cfg', file_changed, ip_level') =>
               /\ th_plcserver' # th_plcserver =>
                      SrvChanged(section, srv_cfg') \/ file_changed
               /\ ~SrvChanged(section, srv_cfg') /\ ~file_changed
                  /\ th_plcserver.st = "alive"
                      => KeptInPlace(ip_level')]_vars

(* the first acceptor still runs; a reload has ended one connection whose peer
   the ACL no longer names and has kept another *)
C29_Witness ==
    /\ th_plcserver = [gen |-> 1, st |-> "alive"]
    /\ \E c, d \in th_dev :
           /\ dev[c].st = "live" /\ ~dev[c].exit
           /\ ip_level[dev[c].ip] = dev[c].acl
           /\ dev[d].exit /\ ip_level[dev[d].ip] = -1

(* C30: a stop() raises nothing, also on a component that was never started,
   and a second stop() leaves the component and the process image as the first
   one left them. *)
C30_StopIdempotent ==
    [][/\ DevStopCall \/ XStopCall \/ PlcStopCall => raised' = "none"
       /\ DevStopCall /\ dev_exit => so' = so /\ image' = image
       /\ XStopCall /\ fut = "done" => fut' = fut
       /\ PlcStopCall /\ plc_exit => plw' = plw /\ image' = image]_vars

(* C31: once stop() of the log pipe is called it returns and the writer thread
   ends, and the thread ends with the log file closed. *)
C31_StopEndsWriter ==
    /\ (lp_stop # "idle") ~> (lp_stop = "returned")
    /\ (lp_stop # "idle") ~> (lp_pc = "done")
    /\ [][lp_pc # "done" /\ lp_pc' = "done" => lp_fh' = "closed"]_vars

(* the lines of the child in the log file, in the order of the file *)
ChildLines(file) == SelectSeq(file, LAMBDA l : l > 0)

(* C40: when the writer thread has ended, the log file holds every line the
   child wrote before stop(), in the order written. *)
C40_LinesLogged ==
    lp_pc = "done" => ChildLines(lp_file) = [n \in 1..(lp_next - 1) |-> n]

(* C32: no lookup fails while the mainloop loads, and when no load is under
   way every memoised level is the level the loaded list yields. *)
C32_LookupsSafeAndFresh ==
    /\ ~lk.raised
    /\ ld.pc = "idle" =>
           \A e \in dict_knownips : e[2] = ListLevel(dict_acl, e[1])

(* C33: when stop() has returned and the supervisor thread has ended, no child
   of the supervisor runs: the child is gone or has been sent SIGKILL. *)
C33_NoChildAfterStop ==
    stop_pc = "done" /\ plc_pc = "done" => child # "alive" \/ sigkill

(* C34: a step taken by or for a connection whose level is below 1 changes no
   byte of the process image, whatever the level was before. *)
C34_NoWriteBelowLevelOne ==
    [][acl < 1 => image' = image]_vars

(* C35: every setting of the reload event is eventually followed by a reload
   that starts after it, also when the event is set while a reload runs. *)
C35_ReloadNotLost ==
    (pending > 0) ~> (pending = 0)

(* C36: after the watcher thread has set its flag for an event, a later read of
   triggered by the mainloop returns True. *)
C36_EventNotLost ==
    rd_owed ~> ~rd_owed

(* the path lies in the working directory: its components begin with those of
   the working directory *)
InsideWorkdir(path) ==
    LET comps == Norm(Split(path, "/"), <<>>)
        work == Norm(Split(plcworkdir, "/"), <<>>)
    IN  Len(comps) > Len(work) /\ SubSeq(comps, 1, Len(work)) = work

(* C37: plcdelete_file and plcdownload_file delete and read files of the
   working directory only, whatever name the client sends. *)
C37_FilesInsideWorkdir ==
    upl_ret # <<>> /\ upl_ret[1] \in {"deleted", "read"}
        => InsideWorkdir(upl_ret[2])

(* C38: an iteration of the mainloop that restarts the control program and
   gets no supervisor does not fail: the mainloop goes on to its next
   iteration, with no supervised program. *)
C38_RestartFailureSurvived ==
    [][CheckStep => main_pc' = "top"]_vars

(* the call has applied all it was sent *)
ScApplied(dc) ==
    /\ sc_conf' = [autoreload |-> dc.autoreload, autostart |-> dc.autostart]
    /\ sc_file' = sc_conf'
    /\ sc_acl' = [plc |-> set_acl[dc.plcserveracl].acl,
                  xml |-> set_acl[dc.xmlrpcacl].acl]
    /\ sc_aclfile' = [plc |-> AclLines(sc_acl'.plc), xml |-> AclLines(sc_acl'.xml)]

(* C39: a call of set_config that returns True has applied everything it was
   sent; one that returns False has left the configuration in memory, the
   configuration file, both ACLs and both ACL files as they were. *)
C39_SetConfigAllOrNothing ==
    [][sc_ret' # <<>> =>
          IF sc_ret'.ok THEN ScApplied(sc_ret'.dc)
          ELSE UNCHANGED <<sc_conf, sc_file, sc_acl, sc_aclfile>>]_vars

====
